---- MODULE Spec2Model ----
(***************************************************************************)
(* Fair media delivery of the watchparty server: range admission and       *)
(* truncation, the per-client FIFO queues, the deficit-round-robin         *)
(* scheduling loop, the head cache and the per-revision reset              *)
(* (apps/watchparty-server/lib/fair-delivery.js and the /media/current.mp4 *)
(* route and load/unload handlers of server.js).                           *)
(*                                                                         *)
(* Node runs every callback to completion, so each handler (one request,   *)
(* one scheduling pass, one sink event, one admin message) is one action.  *)
(* Sizes are scaled down: a file of FileLen bytes, a quantum of ChunkBytes *)
(* bytes, FAIR_MAX_REQUEST_BYTES of two quanta as in DEFAULTS.             *)
(* The ahead gate keeps its DEFAULTS value 0 (fair-delivery.js:25), so     *)
(* lines 109-115 of the loop are skipped.                                  *)
(***************************************************************************)
EXTENDS Integers, Sequences, FiniteSets, TLC

\* ---------------------------------------------------------------- bounds
MaxRequests == 2
MaxLoads == 2
MaxDiskEvents == 1
\* Range requests one client has queued in the contention scenario.
MaxBacklogJobs == 3
ChunkBytes == 2
\* Ticks of the clock per second, and the denominator of token counts.
TokenScale == 2
MaxTime == 4
\* Visits refused by the rate limit that are followed.
MaxRateLimited == 3
\* Visits deferred by the ahead gate that are followed.
MaxAheadDeferred == 2
\* The rolling samples kept per metric (SAMPLE_CAP, scaled down).
SAMPLE_CAP == 1
\* Raw numeric overrides are the multiples of 1/Denominator up to
\* MaxRaw/Denominator.
Denominator == 2
MaxRaw == 5
\* A file of three quanta; a disk fault cuts it to two.
FileLen == 3 * ChunkBytes
ShortLen == 2 * ChunkBytes

\* ------------------------------------------------------------ vocabulary
Guids == {"A", "B"}
NoGuid == "null"
Files == {"f1", "f2"}
NoFile == "nofile"
Methods == {"GET", "HEAD"}

Min(a, b) == IF a < b THEN a ELSE b
Max(a, b) == IF a > b THEN a ELSE b

\* The byte a file holds at an offset; two files differ at every offset.
FileByte(f, off) == <<f, off>>
\* Bytes of Buffer.allocUnsafe that no read has overwritten.
JunkBytes == {<<"uninit", 0>>}

\* Captured groups of /bytes=(\d*)-(\d*)/: <<>> is the empty capture.
StartVals == {0, FileLen \div 2}
EndVals == {0, FileLen}
RangeHeaders ==
  {[kind |-> "absent", m1 |-> <<>>, m2 |-> <<>>],
   [kind |-> "nomatch", m1 |-> <<>>, m2 |-> <<>>]}
  \cup {[kind |-> "range", m1 |-> a, m2 |-> b] :
          a \in {<<>>} \cup {<<s>> : s \in StartVals},
          b \in {<<>>} \cup {<<e>> : e \in EndVals}}

\* ----------------------------------------------------------- environment
ConfigNames ==
  {"FAIR_MAX_REQUEST_BYTES", "FAIR_CHUNK_BYTES", "FAIR_RATE_CAP_BPS",
   "CONTENT_BITRATE_BPS", "HOT_CACHE_BYTES", "FAIR_MAX_AHEAD_SEC"}

\* DEFAULTS, the two sizes scaled to the chunk of the model.
DEFAULTS ==
  [FAIR_MAX_REQUEST_BYTES |-> 2 * ChunkBytes, FAIR_CHUNK_BYTES |-> ChunkBytes,
   FAIR_RATE_CAP_BPS |-> 0, CONTENT_BITRATE_BPS |-> 0,
   HOT_CACHE_BYTES |-> 0, FAIR_MAX_AHEAD_SEC |-> 0]

\* The value of an environment variable: absent, the empty string, a string
\* Number() turns into NaN, or a string Number() turns into h / Denominator.
Absent == [kind |-> "absent", h |-> 0]
RawValues ==
  {Absent, [kind |-> "empty", h |-> 0], [kind |-> "text", h |-> 0]}
  \cup {[kind |-> "number", h |-> x] : x \in (0 - Denominator)..MaxRaw}

\* Math.floor(n) of n = h / Denominator.
Floor(h) == h \div Denominator

\* parsePositiveInt(name, def), raw being process.env[name].
parsePositiveInt(raw, def) ==
  IF raw.kind = "absent" \/ raw.kind = "empty" THEN def
  ELSE IF raw.kind = "text" \/ raw.h <= 0 THEN def
  ELSE Floor(raw.h)

\* An environment under which initFairDelivery resolves to cfg and en.
EnvFor(en, cfg) ==
  [n \in ConfigNames \cup {"FAIR_DELIVERY"} |->
     IF n = "FAIR_DELIVERY"
     THEN [kind |-> "number", h |-> IF en THEN Denominator ELSE 0]
     ELSE IF cfg[n] = DEFAULTS[n] THEN Absent
     ELSE [kind |-> "number", h |-> cfg[n] * Denominator]]

\* CONFIG as initFairDelivery builds it; sizes scaled, the rest DEFAULTS.
ConfigSet ==
  {[FAIR_MAX_REQUEST_BYTES |-> 2 * ChunkBytes, FAIR_CHUNK_BYTES |-> ChunkBytes,
    FAIR_RATE_CAP_BPS |-> 0, CONTENT_BITRATE_BPS |-> 0,
    HOT_CACHE_BYTES |-> h, FAIR_MAX_AHEAD_SEC |-> 0] : h \in {0, ChunkBytes}}

VARIABLES
  ENABLED_,      \* ENABLED: FAIR_DELIVERY !== '0'
  CONFIG,        \* the parsed configuration
  env,           \* process.env: FAIR_DELIVERY and the FAIR_* overrides
  configDriftDetected,  \* _configDriftDetected
  lastBroadcast, \* the playback state last broadcast: t and ts in ticks
  samples,       \* the lengths of samples.queueWaitMs and samples.chunkServeMs
  mediaFile,     \* server.js: the selected file, or NoFile
  mediaRev,      \* server.js: incremented on every load / unload
  disk,          \* the file system: for each file, whether it exists, whether
                 \* it can be opened for reading, and its size
  diskEvents,    \* number of file-system changes so far
  headCache,     \* { buf, length }
  fairClient,    \* Map key -> { queue, deficit, tokens }
  fairOrder,     \* keys in first-seen order
  fairRunning,   \* the pass-scheduled flag
  immediates,    \* number of pending setImmediate(fairProcessLoop) callbacks
  fairnessStats, \* the counters
  jobs,          \* every job created so far, with its response object
  nreq,          \* number of requests handled so far
  now,           \* Date.now(), in ticks since the server started
  lastResp       \* the response headers and body the last request produced

\* lastBroadcast = { t:0, paused:true, ts:now, ... }: the state at start and
\* after a load or an unload.
HomeState(ts) == [t |-> 0, paused |-> TRUE, ts |-> ts]

vars == <<ENABLED_, CONFIG, env, configDriftDetected, lastBroadcast, samples, now, mediaFile, mediaRev, disk, diskEvents, headCache,
          fairClient, fairOrder, fairRunning, immediates, fairnessStats, jobs,
          nreq, lastResp>>

\* ------------------------------------------------------------ file system
Exists(f) == f # NoFile /\ disk[f].present
\* fs.openSync(f,'r') returns a descriptor rather than throwing.
Opens(f) == Exists(f) /\ disk[f].readable
\* A faulty variant: a read never comes back short or empty.
ReadWhole(f, want, pos) == want

\* fs.readSync(fd, buf, 0, want, pos): the number of bytes read.
ReadLen(f, want, pos) == Min(want, Max(0, disk[f].size - pos))
\* The bytes at offsets pos .. pos+n-1 of f.
FileBytes(f, pos, n) == [k \in 1..n |-> FileByte(f, pos + k - 1)]

\* -------------------------------------------------------------- head cache
\* { buf:null, length:0 }; a length is <<n>>, and <<>> when it is undefined.
NoCache == [buf |-> <<>>, built |-> FALSE, length |-> <<0>>]
invalidateHeadCache == NoCache

\* A faulty variant: the cache is filled from the other file.
OtherFile(f) == CHOOSE g \in Files : g # f

\* The file ensureHeadCache reads.
CacheSource(f) == f

\* ensureHeadCache(mediaFile): the cache after the call. fs.readSync returns
\* a number, so the destructured bytesRead is undefined: headCache.length is
\* undefined and b.subarray(0, undefined) is the whole of b, the bytes read
\* followed by what Buffer.allocUnsafe(want) held.
ensureHeadCache(hc, f) ==
  IF CONFIG.HOT_CACHE_BYTES = 0 \/ hc.built THEN hc
  ELSE IF Exists(f) /\ Opens(f)     \* else the catch leaves the cache as it is
       THEN LET want == CONFIG.HOT_CACHE_BYTES
                n == ReadLen(f, want, 0)
                junk == CHOOSE x \in JunkBytes : TRUE
                b == FileBytes(CacheSource(f), 0, n) \o [k \in 1..(want - n) |-> junk]
                bytesRead == <<>>
            IN [buf |-> b, built |-> TRUE, length |-> bytesRead]
       ELSE hc

\* end < headCache.length: false when the length is undefined.
LessThanLength(end, length) == length # <<>> /\ end < length[1]

\* ------------------------------------------------------- per-client state
NewClient == [queue |-> <<>>, deficit |-> 0, tokens |-> 0, lastRefill |-> now]

\* A faulty variant: a client record is created at every call.
ensureFairClientAlways(fcs, order, key) ==
  [fc |-> (key :> NewClient) @@ fcs, order |-> Append(order, key)]

\* ensureFairClient(guid): the map and the order after the call.
ensureFairClient(fcs, order, key) ==
  IF key \in DOMAIN fcs THEN [fc |-> fcs, order |-> order]
  ELSE [fc |-> (key :> NewClient) @@ fcs, order |-> Append(order, key)]

\* A faulty variant: nothing is scheduled.
scheduleFairRunLost(s) == s

\* A faulty variant: scheduling without looking at the flag.
scheduleFairRunNoGuard(s) ==
  [fairRunning |-> TRUE, immediates |-> s.immediates + 1]

\* scheduleFairRun(): the flag and the pending callbacks after the call.
scheduleFairRun(s) ==
  IF ~ENABLED_ THEN s
  ELSE IF s.fairRunning THEN s
  ELSE [fairRunning |-> TRUE, immediates |-> s.immediates + 1]

ZeroStats == [enqueued |-> 0, truncations |-> 0, completed |-> 0, aborted |-> 0,
              chunkServes |-> 0, cacheHits |-> 0, cacheMiss |-> 0,
              aheadDeferred |-> 0, rateLimited |-> 0]

Bump(stats, field) == [stats EXCEPT ![field] = @ + 1]

\* const samples = { queueWaitMs: [], chunkServeMs: [] }: the arrays are
\* held by their lengths.
NoSamples == [queueWaitMs |-> 0, chunkServeMs |-> 0]

\* recordSample(key, v): arr.push(v), cut back to the last SAMPLE_CAP.
recordSample(smp, key) == [smp EXCEPT ![key] = Min(@ + 1, SAMPLE_CAP)]

\* The samples a served chunk records: its service time and, for the
\* first chunk of a job, the time the job waited in the queue.
recordSamples(smp, first) ==
  LET s1 == recordSample(smp, "chunkServeMs")
  IN IF first THEN recordSample(s1, "queueWaitMs") ELSE s1

\* ------------------------------------------------------------- responses
NoResp == [status |-> 0, range |-> <<>>, length |-> -1, body |-> <<>>,
           ended |-> FALSE, job |-> 0, want |-> <<>>]

Init ==
  /\ ENABLED_ \in BOOLEAN
  /\ CONFIG \in ConfigSet
  /\ env = EnvFor(ENABLED_, CONFIG)
  /\ now = 0
  /\ configDriftDetected = FALSE
  /\ lastBroadcast = HomeState(0)
  /\ samples = NoSamples
  /\ mediaFile = NoFile
  /\ mediaRev = 0
  /\ disk = [f \in Files |-> [present |-> TRUE, readable |-> TRUE, size |-> FileLen]]
  /\ diskEvents = 0
  /\ headCache = NoCache
  /\ fairClient = <<>>
  /\ fairOrder = <<>>
  /\ fairRunning = FALSE
  /\ immediates = 0
  /\ fairnessStats = ZeroStats
  /\ jobs = <<>>
  /\ nreq = 0
  /\ lastResp = NoResp

\* ------------------------------------------------------------- serveRange
\* let start = m[1]? parseInt(m[1],10):0; let end = m[2]? parseInt(m[2],10): total-1
ParseStart(h) == IF h.m1 # <<>> THEN h.m1[1] ELSE 0
ParseEnd(h, total) == IF h.m2 # <<>> THEN h.m2[1] ELSE total - 1
\* A faulty variant: the end is not compared with the file length.
RangeInvalidStartOnly(start, end, total) == start > end

\* isNaN(start)||isNaN(end)||start>end||end>=total, on digits only.
RangeInvalid(start, end, total) == start > end \/ end >= total

\* A faulty variant: the requested end is kept.
NotTruncatedEnd(start, end) == end

\* The end of the admitted span: truncated when the span exceeds the maximum.
TruncatedEnd(start, end) ==
  IF end - start + 1 > CONFIG.FAIR_MAX_REQUEST_BYTES
  THEN start + CONFIG.FAIR_MAX_REQUEST_BYTES - 1
  ELSE end

NoGuidKey(n) == "noguid-" \o ToString(n)

\* status, Content-Range, Content-Length, body, whether res.end() was called,
\* the job enqueued for it (0: none); want is the validated <<start, end>>
\* of the request before truncation.
Resp(status, range, length, body, ended, job) ==
  [status |-> status, range |-> range, length |-> length, body |-> body,
   ended |-> ended, job |-> job, want |-> <<>>]

NewJob(guid, start, end, f, total) ==
  [guid |-> guid, start |-> start, end |-> end, current |-> start,
   len |-> end - start + 1, mediaFile |-> f,
   status |-> 206, range |-> <<"bytes", start, end, total>>,
   length |-> end - start + 1,
   writableEnded |-> FALSE, closed |-> FALSE, errored |-> FALSE,
   aborted |-> FALSE, needDrain |-> FALSE,
   out |-> <<>>]

\* A job whose connection has closed and that is in no queue: no handler can
\* reach it or its response any more.
Gone ==
  [guid |-> "gone", start |-> 0, end |-> 0, current |-> 0, len |-> 0,
   mediaFile |-> NoFile, status |-> 0, range |-> <<>>, length |-> 0,
   writableEnded |-> TRUE, closed |-> TRUE, errored |-> FALSE,
   aborted |-> FALSE, needDrain |-> FALSE, out |-> <<>>]

InQueue(fcs, j) ==
  \E k \in DOMAIN fcs : \E p \in 1..Len(fcs[k].queue) : fcs[k].queue[p] = j

Collect(fcs, js) ==
  [j \in 1..Len(js) |-> IF js[j].closed /\ ~InQueue(fcs, j) THEN Gone ELSE js[j]]

\* The values serveRange leaves in the state it can change.
Cur ==
  [lastResp |-> NoResp, fairnessStats |-> fairnessStats, headCache |-> headCache,
   fairClient |-> fairClient, fairOrder |-> fairOrder, jobs |-> jobs,
   run |-> [fairRunning |-> fairRunning, immediates |-> immediates]]

\* The fair path of serveRange, from fairnessStats.enqueued++ on.
serveFair(guid, method, start, endReq, total) ==
  LET end == TruncatedEnd(start, endReq)
      st1 == IF endReq - start + 1 > CONFIG.FAIR_MAX_REQUEST_BYTES
             THEN Bump(Bump(fairnessStats, "enqueued"), "truncations")
             ELSE Bump(fairnessStats, "enqueued")
      hc == IF CONFIG.HOT_CACHE_BYTES # 0
            THEN ensureHeadCache(headCache, mediaFile) ELSE headCache
      hit == hc.built /\ LessThanLength(end, hc.length)
      hdr == <<"bytes", start, end, total>>
      len == end - start + 1
  IN IF hit
     THEN IF method = "HEAD"
          THEN [Cur EXCEPT !.fairnessStats = Bump(st1, "cacheHits"),
                           !.headCache = hc,
                           !.lastResp = Resp(206, hdr, len, <<>>, TRUE, 0)]
          ELSE LET slice == SubSeq(hc.buf, start + 1, end + 1)
               IN [Cur EXCEPT !.fairnessStats = Bump(st1, "cacheHits"),
                              !.headCache = hc,
                              !.lastResp = Resp(206, hdr, len, slice, TRUE, 0)]
     ELSE LET st2 == IF CONFIG.HOT_CACHE_BYTES # 0 THEN Bump(st1, "cacheMiss") ELSE st1
          IN IF method = "HEAD"
             THEN [Cur EXCEPT !.fairnessStats = st2, !.headCache = hc,
                              !.lastResp = Resp(206, hdr, len, <<>>, TRUE, 0)]
             ELSE LET key == IF guid # NoGuid THEN guid ELSE NoGuidKey(nreq + 1)
                      ens == ensureFairClient(fairClient, fairOrder, key)
                      job == NewJob(guid, start, end, mediaFile, total)
                      id == Len(jobs) + 1
                  IN IF guid \notin DOMAIN ens.fc
                     \* fairClient.get(job.guid) is undefined: fc.queue throws
                     THEN [Cur EXCEPT !.fairnessStats = st2, !.headCache = hc,
                                      !.fairClient = ens.fc, !.fairOrder = ens.order,
                                      !.lastResp = Resp(500, <<>>, -1, <<>>, TRUE, 0)]
                     ELSE [Cur EXCEPT !.fairnessStats = st2, !.headCache = hc,
                                      !.fairClient = [ens.fc EXCEPT ![guid].queue = Append(@, id)],
                                      !.fairOrder = ens.order,
                                      !.jobs = Append(jobs, job),
                                      !.run = scheduleFairRun(Cur.run),
                                      !.lastResp = Resp(206, hdr, len, <<>>, FALSE, id)]

\* serveRange({ req, res, mediaFile, ... }) as the route calls it.
serveRange(guid, method, h) ==
  IF ~Exists(mediaFile)
  THEN [Cur EXCEPT !.lastResp = Resp(404, <<>>, -1, <<>>, TRUE, 0)]
  ELSE LET total == disk[mediaFile].size
           start == ParseStart(h)
           end == ParseEnd(h, total)
       IN IF h.kind = "absent"
          THEN IF method = "HEAD"
               THEN [Cur EXCEPT !.lastResp = Resp(200, <<>>, total, <<>>, TRUE, 0)]
               ELSE [Cur EXCEPT !.lastResp = Resp(200, <<>>, total,
                                                  FileBytes(mediaFile, 0, total), TRUE, 0)]
          ELSE IF h.kind = "nomatch"
          THEN [Cur EXCEPT !.lastResp = Resp(416, <<>>, -1, <<>>, TRUE, 0)]
          ELSE IF RangeInvalid(start, end, total)
          THEN [Cur EXCEPT !.lastResp = Resp(416, <<"*", total>>, -1, <<>>, TRUE, 0)]
          ELSE IF ~ENABLED_
          THEN IF method = "HEAD"
               THEN [Cur EXCEPT !.lastResp =
                       Resp(206, <<"bytes", start, end, total>>, end - start + 1,
                            <<>>, TRUE, 0)]
               ELSE [Cur EXCEPT !.lastResp =
                       Resp(206, <<"bytes", start, end, total>>, end - start + 1,
                            FileBytes(mediaFile, start, end - start + 1), TRUE, 0)]
          ELSE serveFair(guid, method, start, end, total)

\* The validated <<start, end>> of a range request, <<>> for any other.
Wanted(h) ==
  IF ~Exists(mediaFile) \/ h.kind # "range" THEN <<>>
  ELSE LET total == disk[mediaFile].size
       IN IF RangeInvalid(ParseStart(h), ParseEnd(h, total), total) THEN <<>>
          ELSE <<ParseStart(h), ParseEnd(h, total)>>

\* GET/HEAD /media/current.mp4
ServeRange(guid, method, h) ==
  /\ nreq < MaxRequests
  /\ LET r == serveRange(guid, method, h)
     IN /\ lastResp' = [r.lastResp EXCEPT !.want = Wanted(h)]
        /\ fairnessStats' = r.fairnessStats
        /\ headCache' = r.headCache
        /\ fairClient' = r.fairClient
        /\ fairOrder' = r.fairOrder
        /\ jobs' = r.jobs
        /\ fairRunning' = r.run.fairRunning
        /\ immediates' = r.run.immediates
  /\ nreq' = nreq + 1
  /\ UNCHANGED <<ENABLED_, CONFIG, env, configDriftDetected, lastBroadcast, samples, now, mediaFile, mediaRev, disk, diskEvents>>

\* ------------------------------------------------------ revision changes
\* A faulty variant: the counters are reset, the head cache is kept.
resetKeepCache(hc) == [fairnessStats |-> ZeroStats, headCache |-> hc]

\* resetPerMediaRevision(): the counters and the head cache after the call.
resetPerMediaRevision(hc) ==
  [fairnessStats |-> ZeroStats, headCache |-> invalidateHeadCache]

\* ws message 'load' from the admin with a path resolveMedia accepts; the
\* admin selects a file other than the one playing.
LoadTo(f) ==
  /\ Exists(f) /\ f # mediaFile
  /\ mediaFile' = f
  /\ mediaRev' = mediaRev + 1
  /\ LET r == resetPerMediaRevision(headCache)
     IN fairnessStats' = r.fairnessStats /\ headCache' = r.headCache
  /\ lastBroadcast' = HomeState(now)
  /\ lastResp' = NoResp
  /\ UNCHANGED <<ENABLED_, CONFIG, env, configDriftDetected, samples, now, disk, diskEvents, fairClient, fairOrder,
                 fairRunning, immediates, jobs, nreq>>

Load(f) == mediaRev < MaxLoads /\ LoadTo(f)

\* The first selection after the server has started.
FirstLoad(f) == mediaRev = 0 /\ LoadTo(f)

\* ws message 'unload' from the admin.
Unload ==
  /\ mediaRev < MaxLoads
  /\ mediaFile # NoFile
  /\ mediaFile' = NoFile
  /\ mediaRev' = mediaRev + 1
  /\ LET r == resetPerMediaRevision(headCache)
     IN fairnessStats' = r.fairnessStats /\ headCache' = r.headCache
  /\ lastBroadcast' = HomeState(now)
  /\ lastResp' = NoResp
  /\ UNCHANGED <<ENABLED_, CONFIG, env, configDriftDetected, samples, now, disk, diskEvents, fairClient, fairOrder,
                 fairRunning, immediates, jobs, nreq>>

\* -------------------------------------------------------- the file system
\* The file is cut short on disk.
DiskTruncate(f) ==
  /\ diskEvents < MaxDiskEvents
  /\ disk[f].present /\ disk[f].size > ShortLen
  /\ disk' = [disk EXCEPT ![f].size = ShortLen]
  /\ diskEvents' = diskEvents + 1
  /\ lastResp' = NoResp
  /\ UNCHANGED <<ENABLED_, CONFIG, env, configDriftDetected, lastBroadcast, samples, now, mediaFile, mediaRev, headCache, fairClient,
                 fairOrder, fairRunning, immediates, fairnessStats, jobs,
                 nreq>>

\* The file is removed from disk.
DiskRemove(f) ==
  /\ diskEvents < MaxDiskEvents
  /\ disk[f].present
  /\ disk' = [disk EXCEPT ![f].present = FALSE]
  /\ diskEvents' = diskEvents + 1
  /\ lastResp' = NoResp
  /\ UNCHANGED <<ENABLED_, CONFIG, env, configDriftDetected, lastBroadcast, samples, now, mediaFile, mediaRev, headCache, fairClient,
                 fairOrder, fairRunning, immediates, fairnessStats, jobs,
                 nreq>>

\* ------------------------------------------------------ the scheduling loop
\* A faulty variant: the job enqueued last is taken.
LastJob(q) == q[Len(q)]

\* const job=fc.queue[0]
HeadJob(q) == q[1]

\* A faulty variant: the rest of the job is sent in one visit.
ToSendWholeJob(remaining, deficit, quantum) == remaining

\* A faulty variant: the bytes left in the job are not taken into account.
ToSendIgnoringRemaining(remaining, deficit, quantum) == Min(deficit, quantum)

\* Math.min(remaining, Math.min(fc.deficit, quantum))
ToSend(remaining, deficit, quantum) == Min(remaining, Min(deficit, quantum))

\* The bytes res.write(buf) receives: bytesRead bytes of the file, then
\* what Buffer.allocUnsafe(allowed) held.
ChunkBuf(f, pos, bytesRead, allowed, junk) ==
  FileBytes(f, pos, bytesRead) \o [k \in 1..(allowed - bytesRead) |-> junk]

\* A faulty variant: no quantum is ever added.
TopUpNever(deficit, quantum) == deficit

\* A faulty variant: a quantum is added at every visit.
TopUpAlways(deficit, quantum) == deficit + quantum

\* if(fc.deficit<1) fc.deficit+=quantum
TopUp(deficit, quantum) == IF deficit < 1 THEN deficit + quantum ELSE deficit

\* A faulty variant: the chunk is charged twice.
ChargeTwice(deficit, bytesRead) == deficit - 2 * bytesRead

\* fc.deficit -= bytesRead
Charge(deficit, bytesRead) == deficit - bytesRead

\* if(CONFIG.FAIR_RATE_CAP_BPS || CONFIG.CONTENT_BITRATE_BPS)
RateOn == CONFIG.FAIR_RATE_CAP_BPS # 0 \/ CONFIG.CONTENT_BITRATE_BPS # 0

\* const fillRate = CONFIG.FAIR_RATE_CAP_BPS || CONFIG.CONTENT_BITRATE_BPS
FillRate ==
  IF CONFIG.FAIR_RATE_CAP_BPS # 0 THEN CONFIG.FAIR_RATE_CAP_BPS
  ELSE CONFIG.CONTENT_BITRATE_BPS

\* if(CONFIG.FAIR_MAX_AHEAD_SEC && (CONFIG.FAIR_RATE_CAP_BPS ||
\* CONFIG.CONTENT_BITRATE_BPS) && job.getBroadcast); the route hands every
\* job the getter of lastBroadcast.
GateOn == CONFIG.FAIR_MAX_AHEAD_SEC # 0 /\ RateOn

\* A faulty variant: the position runs on while playback is paused.
CurTRunning(lb) == lb.t + Max(0, now - lb.ts)

\* let curT = lastBroadcast.t; if(!lastBroadcast.paused){ let delta =
\* (now-lastBroadcast.ts)/1000; if(delta<0) delta=0; curT+=delta; }
\* The position is held in ticks, as the clock is.
CurT(lb) == IF lb.paused THEN lb.t ELSE lb.t + Max(0, now - lb.ts)

\* const allowedT = curT + CONFIG.FAIR_MAX_AHEAD_SEC;
\* const allowedBytes = Math.floor(bitrate*allowedT)
AllowedBytes(lb) ==
  (FillRate * (CurT(lb) + CONFIG.FAIR_MAX_AHEAD_SEC * TokenScale)) \div TokenScale

\* A faulty variant: the refill is not capped.
RefillUncapped(fc) ==
  [fc EXCEPT !.tokens = @ + FillRate * (now - fc.lastRefill), !.lastRefill = now]

\* The refill of a client's bucket at the visit: (fillRate*elapsedMs)/1000,
\* capped at fillRate. The clock counts ticks of 1/TokenScale second and
\* fc.tokens holds TokenScale times the token count, so fractions of a
\* token are kept.
Refill(fc) ==
  IF now - fc.lastRefill > 0
  THEN [fc EXCEPT !.tokens = Min(FillRate * TokenScale,
                                 @ + FillRate * (now - fc.lastRefill)),
                  !.lastRefill = now]
  ELSE fc

\* A faulty variant: the tokens do not shorten the chunk.
AllowedIgnoringTokens(toSend, tokens) == toSend

\* let allowed = toSend; if(rate && fc.tokens < allowed) allowed = Math.max(0, Math.floor(fc.tokens))
Allowed(toSend, tokens) ==
  IF RateOn /\ tokens < toSend * TokenScale THEN Max(0, tokens \div TokenScale)
  ELSE toSend

\* fc.tokens -= bytesRead; if(fc.tokens<0) fc.tokens=0
Spend(tokens, bytesRead) ==
  IF RateOn THEN Max(0, tokens - bytesRead * TokenScale) ELSE tokens

\* A faulty variant: a deferral ends the pass.
AfterDeferBreak(i) == Len(fairOrder) + 1

\* `continue` after a deferral by the ahead gate or the rate limit: the
\* index of the queue visited next.
AfterDefer(i) == i + 1

\* The for loop of fairProcessLoop from index i (1-based) on. st holds the
\* state the loop changes; full is the set of jobs whose res.write returns
\* false in this pass.
RECURSIVE LoopFrom(_, _, _, _)
LoopFrom(i, st, full, junk) ==
  IF i > Len(fairOrder) THEN st
  ELSE
    LET guid == fairOrder[i]
        fc0 == st.fc[guid]
    IN IF Len(fc0.queue) = 0 THEN LoopFrom(i + 1, st, full, junk)
       ELSE
         LET quantum == CONFIG.FAIR_CHUNK_BYTES
             deficit == TopUp(fc0.deficit, quantum)
             j == HeadJob(fc0.queue)
             job == st.jobs[j]
             s1 == [st EXCEPT !.active = TRUE, !.fc[guid].deficit = deficit]
             shifted == [s1 EXCEPT !.fc[guid].queue = Tail(@)]
             remaining == job.end - job.current + 1
             \* the state at the read: the bucket refilled when a rate applies
             s2 == IF RateOn THEN [s1 EXCEPT !.fc[guid] = Refill(@)] ELSE s1
             tokens == s2.fc[guid].tokens
             limited == [s2 EXCEPT !.stats = Bump(@, "rateLimited")]
             toSend == ToSend(remaining, deficit, quantum)
             allowed == Allowed(toSend, tokens)
             bytesRead == ReadLen(job.mediaFile, allowed, job.current)
             aborted == [s2 EXCEPT !.fc[guid].queue = Tail(@),
                                   !.stats = Bump(@, "aborted"),
                                   !.jobs[j].writableEnded = TRUE]
         IN IF job.writableEnded
            THEN LoopFrom(i, shifted,
                          full, junk)
            ELSE IF remaining <= 0
            THEN LoopFrom(i, [shifted EXCEPT
                                !.stats = Bump(@, "completed"),
                                !.jobs[j].writableEnded = TRUE],
                          full, junk)
            ELSE IF deficit <= 0 THEN LoopFrom(i + 1, s1, full, junk)
            ELSE IF GateOn /\ job.start > AllowedBytes(lastBroadcast)
            THEN LoopFrom(AfterDefer(i), [s1 EXCEPT !.stats = Bump(@, "aheadDeferred")],
                          full, junk)
            ELSE IF RateOn /\ tokens <= 0 THEN LoopFrom(AfterDefer(i), limited, full, junk)
            ELSE IF RateOn /\ tokens < toSend * TokenScale /\ allowed < 1
            THEN LoopFrom(AfterDefer(i), limited, full, junk)
            ELSE IF ~Opens(job.mediaFile)         \* fs.openSync throws
            THEN LoopFrom(i, aborted, full, junk)
            ELSE IF bytesRead <= 0
            THEN LoopFrom(i, aborted, full, junk)
            ELSE LoopFrom(i + 1,
                   [s2 EXCEPT
                      !.jobs[j].current = @ + bytesRead,
                      !.fc[guid].deficit = Charge(@, bytesRead),
                      !.fc[guid].tokens = Spend(@, bytesRead),
                      !.stats = Bump(@, "chunkServes"),
                      !.samples = recordSamples(@, Len(job.out) = 0),
                      !.jobs[j].out =
                         @ \o ChunkBuf(job.mediaFile, job.current, bytesRead, allowed, junk),
                      !.jobs[j].needDrain = @ \/ j \in full],
                   full, junk)

QueuedJobs == {j \in 1..Len(jobs) : InQueue(fairClient, j)}

\* The jobs a pass beginning in this state writes to: the jobs whose
\* res.write(buf) is called and may return false.
Written(junk) ==
  LET st == LoopFrom(1, [fc |-> fairClient, jobs |-> jobs, stats |-> fairnessStats,
                         samples |-> samples, active |-> FALSE], {}, junk)
  IN {j \in QueuedJobs : Len(st.jobs[j].out) > Len(jobs[j].out)}

\* fairProcessLoop(), the setImmediate callback.
FairProcessLoop ==
  /\ immediates > 0
  /\ fairnessStats.rateLimited < MaxRateLimited
  /\ fairnessStats.aheadDeferred < MaxAheadDeferred
  /\ \E junk \in JunkBytes : \E full \in SUBSET Written(junk) :
       IF ~ENABLED_
       THEN /\ fairRunning' = FALSE
            /\ immediates' = immediates - 1
            /\ UNCHANGED <<fairClient, jobs, fairnessStats, samples>>
       ELSE LET st == LoopFrom(1, [fc |-> fairClient, jobs |-> jobs,
                                   stats |-> fairnessStats,
                                   samples |-> samples,
                                   active |-> FALSE], full, junk)
            IN /\ fairClient' = st.fc
               /\ jobs' = Collect(st.fc, st.jobs)
               /\ fairnessStats' = st.stats
               /\ samples' = st.samples
               /\ fairRunning' = st.active
               /\ immediates' = IF st.active THEN immediates ELSE immediates - 1
  /\ lastResp' = NoResp
  /\ UNCHANGED <<ENABLED_, CONFIG, env, configDriftDetected, lastBroadcast, now, mediaFile, mediaRev, disk, diskEvents,
                 headCache, fairOrder, nreq>>

\* ----------------------------------------------------------- sink events
\* A faulty variant: the job is removed only when it is at the head.
RemoveIfHead(q, j) == IF Len(q) > 0 /\ q[1] = j THEN Tail(q) ELSE q

\* const idx=fc.queue.indexOf(job); if(idx!==-1) fc.queue.splice(idx,1)
RemoveJob(q, j) == SelectSeq(q, LAMBDA x : x # j)

\* abortJob(reason) of job j: the queues, jobs and counters after the call.
abortJob(j) ==
  IF jobs[j].aborted
  THEN [fc |-> fairClient, jobs |-> jobs, stats |-> fairnessStats]
  ELSE [fc |-> [fairClient EXCEPT ![jobs[j].guid].queue = RemoveJob(@, j)],
        jobs |-> [jobs EXCEPT ![j].aborted = TRUE, ![j].writableEnded = TRUE],
        stats |-> Bump(fairnessStats, "aborted")]

\* res.on('close'): the connection of job j is gone.
SinkClose(j) ==
  /\ j \in 1..Len(jobs)
  /\ ~jobs[j].closed
  /\ LET r == IF jobs[j].current <= jobs[j].end THEN abortJob(j)
              ELSE [fc |-> fairClient, jobs |-> jobs, stats |-> fairnessStats]
     IN /\ fairClient' = r.fc
        /\ jobs' = Collect(r.fc, [r.jobs EXCEPT ![j].closed = TRUE])
        /\ fairnessStats' = r.stats
  /\ lastResp' = NoResp
  /\ UNCHANGED <<ENABLED_, CONFIG, env, configDriftDetected, lastBroadcast, samples, now, mediaFile, mediaRev, disk, diskEvents,
                 headCache, fairOrder, fairRunning, immediates, nreq>>

\* res.on('error')
SinkError(j) ==
  /\ j \in 1..Len(jobs)
  /\ ~jobs[j].closed /\ ~jobs[j].errored
  /\ LET r == abortJob(j)
     IN /\ fairClient' = r.fc
        /\ jobs' = [r.jobs EXCEPT ![j].errored = TRUE]
        /\ fairnessStats' = r.stats
  /\ lastResp' = NoResp
  /\ UNCHANGED <<ENABLED_, CONFIG, env, configDriftDetected, lastBroadcast, samples, now, mediaFile, mediaRev, disk, diskEvents,
                 headCache, fairOrder, fairRunning, immediates, nreq>>

\* 'drain' on the response of job j: every once('drain') listener runs.
SinkDrain(j) ==
  /\ j \in 1..Len(jobs)
  /\ jobs[j].needDrain /\ ~jobs[j].closed
  /\ LET r == scheduleFairRun([fairRunning |-> fairRunning, immediates |-> immediates])
     IN fairRunning' = r.fairRunning /\ immediates' = r.immediates
  /\ jobs' = [jobs EXCEPT ![j].needDrain = FALSE]
  /\ lastResp' = NoResp
  /\ UNCHANGED <<ENABLED_, CONFIG, env, configDriftDetected, lastBroadcast, samples, now, mediaFile, mediaRev, disk, diskEvents,
                 headCache, fairClient, fairOrder, fairnessStats, nreq>>

\* ------------------------------------------------------- the specification
Next ==
  \/ \E g \in Guids \cup {NoGuid}, m \in Methods, h \in RangeHeaders : ServeRange(g, m, h)
  \/ FairProcessLoop
  \/ \E j \in 1..MaxRequests : SinkClose(j)
  \/ \E j \in 1..MaxRequests : SinkError(j)
  \/ \E j \in 1..MaxRequests : SinkDrain(j)
  \/ \E f \in Files : Load(f)
  \/ Unload

\* Requests, passes, sink events and revision changes; the files stay as
\* they are on disk.
Spec == Init /\ [][Next]_vars

NextDisk ==
  \/ \E g \in Guids \cup {NoGuid}, m \in Methods, h \in RangeHeaders : ServeRange(g, m, h)
  \/ FairProcessLoop
  \/ \E j \in 1..MaxRequests : SinkClose(j)
  \/ \E j \in 1..MaxRequests : SinkError(j)
  \/ \E j \in 1..MaxRequests : SinkDrain(j)
  \/ \E f \in Files : FirstLoad(f)
  \/ \E f \in Files : DiskTruncate(f)
  \/ \E f \in Files : DiskRemove(f)

\* One selected file, which may be cut short or removed on disk while it is
\* being delivered.
SpecDisk == Init /\ [][NextDisk]_vars

\* ---------------------------------------------------------- contention
\* The ways a download of n bytes is divided into at most k consecutive range
\* requests of at most max bytes each.
RECURSIVE Splits(_, _, _)
Splits(n, max, k) ==
  IF n = 0 THEN {<<>>}
  ELSE IF k = 0 THEN {}
  ELSE UNION {{<<s>> \o r : r \in Splits(n - s, max, k - 1)} : s \in 1..Min(n, max)}

RECURSIVE SumTo(_, _)
SumTo(sizes, k) == IF k = 0 THEN 0 ELSE SumTo(sizes, k - 1) + sizes[k]

\* The jobs serveRange creates for the requests of one client.
BacklogJobs(guid, sizes, f, total) ==
  [k \in 1..Len(sizes) |->
     NewJob(guid, SumTo(sizes, k - 1), SumTo(sizes, k) - 1, f, total)]

\* The state after the admin has selected f1 and two clients have each
\* requested the whole file as consecutive ranges, before the first pass
\* runs: FirstLoad followed by one serveRange per range, the head cache
\* switched off.
InitFair ==
  \E first \in Guids :
    \E sa \in Splits(FileLen, 2 * ChunkBytes, MaxBacklogJobs),
       sb \in Splits(FileLen, 2 * ChunkBytes, MaxBacklogJobs) :
      LET second == CHOOSE c \in Guids : c # first
          n == Len(sa) + Len(sb)
          all == BacklogJobs(first, sa, "f1", FileLen)
                   \o BacklogJobs(second, sb, "f1", FileLen)
      IN /\ ENABLED_ = TRUE
         /\ CONFIG \in {c \in ConfigSet : c.HOT_CACHE_BYTES = 0}
         /\ env = EnvFor(ENABLED_, CONFIG)
         /\ now = 0
         /\ configDriftDetected = FALSE
         /\ lastBroadcast = HomeState(0)
         /\ samples = NoSamples
         /\ mediaFile = "f1"
         /\ mediaRev = 1
         /\ disk = [f \in Files |-> [present |-> TRUE, readable |-> TRUE, size |-> FileLen]]
         /\ diskEvents = 0
         /\ headCache = NoCache
         /\ fairClient =
              (first :> [queue |-> [k \in 1..Len(sa) |-> k], deficit |-> 0,
                         tokens |-> 0, lastRefill |-> 0])
              @@ (second :> [queue |-> [k \in 1..Len(sb) |-> Len(sa) + k],
                             deficit |-> 0, tokens |-> 0,
                         lastRefill |-> 0])
         /\ fairOrder = <<first, second>>
         /\ fairRunning = TRUE
         /\ immediates = 1
         /\ fairnessStats = [ZeroStats EXCEPT !.enqueued = n]
         /\ jobs = all
         /\ nreq = n
         /\ lastResp = [Resp(206, all[n].range, all[n].length, <<>>, FALSE, n)
                          EXCEPT !.want = <<all[n].start, all[n].end>>]

NextFair == FairProcessLoop

\* Two backlogged clients and the scheduling passes over them: no further
\* request, no sink event, no revision change.
SpecFair == InitFair /\ [][NextFair]_vars

\* ------------------------------------------------- the two-client scenario
\* The state after the admin has selected f1 and clients A and B have each
\* sent two open-ended range requests (bytes=s-) that serveRange truncates
\* to FAIR_MAX_REQUEST_BYTES, before the first pass runs.
InitTwo ==
  \E first \in Guids :
    \E ss \in [1..4 -> {0, 1}] :
      LET second == CHOOSE c \in Guids : c # first
          max == 2 * ChunkBytes
          job(c, k) == NewJob(c, ss[k], ss[k] + max - 1, "f1", FileLen)
          all == <<job(first, 1), job(first, 2), job(second, 3), job(second, 4)>>
      IN /\ ENABLED_ = TRUE
         /\ CONFIG \in ConfigSet
         /\ env = EnvFor(ENABLED_, CONFIG)
         /\ now = 0
         /\ configDriftDetected = FALSE
         /\ lastBroadcast = HomeState(0)
         /\ samples = NoSamples
         /\ mediaFile = "f1"
         /\ mediaRev = 1
         /\ disk = [f \in Files |-> [present |-> TRUE, readable |-> TRUE, size |-> FileLen]]
         /\ diskEvents = 0
         /\ headCache = ensureHeadCache(NoCache, "f1")
         /\ fairClient =
              (first :> [queue |-> <<1, 2>>, deficit |-> 0, tokens |-> 0,
                         lastRefill |-> 0])
              @@ (second :> [queue |-> <<3, 4>>, deficit |-> 0, tokens |-> 0,
                         lastRefill |-> 0])
         /\ fairOrder = <<first, second>>
         /\ fairRunning = TRUE
         /\ immediates = 1
         /\ fairnessStats =
              [ZeroStats EXCEPT !.enqueued = 4, !.truncations = 4,
                                !.cacheMiss = IF CONFIG.HOT_CACHE_BYTES # 0 THEN 4 ELSE 0]
         /\ jobs = all
         /\ nreq = 4
         /\ lastResp = [Resp(206, all[4].range, all[4].length, <<>>, FALSE, 4)
                          EXCEPT !.want = <<all[4].start, FileLen - 1>>]

NextTwo == FairProcessLoop

\* Two clients with a backlog of truncated jobs and the passes over them.
SpecTwo == InitTwo /\ [][NextTwo]_vars

\* ------------------------------------------------------------ rate limits
\* CONFIG with a rate cap, a content bitrate, both or neither.
RateConfigSet ==
  {[FAIR_MAX_REQUEST_BYTES |-> 2 * ChunkBytes, FAIR_CHUNK_BYTES |-> ChunkBytes,
    FAIR_RATE_CAP_BPS |-> r, CONTENT_BITRATE_BPS |-> b,
    HOT_CACHE_BYTES |-> 0, FAIR_MAX_AHEAD_SEC |-> 0] : r \in {0, 1}, b \in {0, 3}}

\* The spans of the range requests a client has queued: one or two of a
\* span from the start of the file and a span up to its end.
SpanLists ==
  LET spans == {<<0, 2 * ChunkBytes - 1>>, <<FileLen - ChunkBytes - 1, FileLen - 1>>}
  IN {<<x>> : x \in spans} \cup {<<x, y>> : x \in spans, y \in spans}

SpanJobs(guid, spans, f, total) ==
  [k \in 1..Len(spans) |-> NewJob(guid, spans[k][1], spans[k][2], f, total)]

\* The state after the admin has selected f1 and clients A and B have each
\* sent one or two range requests, before the first pass runs.
InitRate ==
  \E sa \in SpanLists, sb \in SpanLists :
      LET n == Len(sa) + Len(sb)
          all == SpanJobs("A", sa, "f1", FileLen) \o SpanJobs("B", sb, "f1", FileLen)
      IN /\ ENABLED_ = TRUE
         /\ CONFIG \in RateConfigSet
         /\ env = EnvFor(ENABLED_, CONFIG)
         /\ now = 0
         /\ configDriftDetected = FALSE
         /\ lastBroadcast = HomeState(0)
         /\ samples = NoSamples
         /\ mediaFile = "f1"
         /\ mediaRev = 1
         /\ disk = [f \in Files |-> [present |-> TRUE, readable |-> TRUE, size |-> FileLen]]
         /\ diskEvents = 0
         /\ headCache = NoCache
         /\ fairClient =
              ("A" :> [queue |-> [k \in 1..Len(sa) |-> k], deficit |-> 0,
                       tokens |-> 0, lastRefill |-> 0])
              @@ ("B" :> [queue |-> [k \in 1..Len(sb) |-> Len(sa) + k],
                          deficit |-> 0, tokens |-> 0, lastRefill |-> 0])
         /\ fairOrder = <<"A", "B">>
         /\ fairRunning = TRUE
         /\ immediates = 1
         /\ fairnessStats = [ZeroStats EXCEPT !.enqueued = n]
         /\ jobs = all
         /\ nreq = n
         /\ lastResp = [Resp(206, all[n].range, all[n].length, <<>>, FALSE, n)
                          EXCEPT !.want = <<all[n].start, all[n].end>>]

\* Time passes.
Tick ==
  /\ now < MaxTime
  /\ now' = now + 1
  /\ lastResp' = NoResp
  /\ UNCHANGED <<ENABLED_, CONFIG, env, configDriftDetected, lastBroadcast, samples, mediaFile, mediaRev, disk, diskEvents,
                 headCache, fairClient, fairOrder, fairRunning, immediates,
                 fairnessStats, jobs, nreq>>

NextRate ==
  \/ FairProcessLoop
  \/ Tick
  \/ DiskTruncate("f1")

\* Two backlogged clients under a rate limit, time passing between passes,
\* the file possibly cut short during delivery.
SpecRate == InitRate /\ [][NextRate]_vars

\* ------------------------------------------------------------ ahead gate
\* Configurations with an ahead window of one second: no rate at all, a
\* rate cap, a content bitrate.
AheadConfigSet ==
  {[FAIR_MAX_REQUEST_BYTES |-> 2 * ChunkBytes, FAIR_CHUNK_BYTES |-> ChunkBytes,
    FAIR_RATE_CAP_BPS |-> rb[1], CONTENT_BITRATE_BPS |-> rb[2],
    HOT_CACHE_BYTES |-> 0, FAIR_MAX_AHEAD_SEC |-> 1] :
     rb \in {<<0, 0>>, <<1, 0>>, <<0, 2>>}}

\* The positions a play or pause message carries, in ticks.
PlayTimes == {0, TokenScale}

\* The state after the admin has selected f1, client A has sent one or two
\* range requests and client B one for the end of the file, before the
\* first pass runs.
InitAhead ==
  \E sa \in SpanLists, sb \in {<<<<FileLen - ChunkBytes - 1, FileLen - 1>>>>} :
      LET n == Len(sa) + Len(sb)
          all == SpanJobs("A", sa, "f1", FileLen) \o SpanJobs("B", sb, "f1", FileLen)
      IN /\ ENABLED_ = TRUE
         /\ CONFIG \in AheadConfigSet
         /\ env = EnvFor(ENABLED_, CONFIG)
         /\ now = 0
         /\ configDriftDetected = FALSE
         /\ lastBroadcast = HomeState(0)
         /\ samples = NoSamples
         /\ mediaFile = "f1"
         /\ mediaRev = 1
         /\ disk = [f \in Files |-> [present |-> TRUE, readable |-> TRUE, size |-> FileLen]]
         /\ diskEvents = 0
         /\ headCache = NoCache
         /\ fairClient =
              ("A" :> [queue |-> [k \in 1..Len(sa) |-> k], deficit |-> 0,
                       tokens |-> 0, lastRefill |-> 0])
              @@ ("B" :> [queue |-> [k \in 1..Len(sb) |-> Len(sa) + k],
                          deficit |-> 0, tokens |-> 0, lastRefill |-> 0])
         /\ fairOrder = <<"A", "B">>
         /\ fairRunning = TRUE
         /\ immediates = 1
         /\ fairnessStats = [ZeroStats EXCEPT !.enqueued = n]
         /\ jobs = all
         /\ nreq = n
         /\ lastResp = [Resp(206, all[n].range, all[n].length, <<>>, FALSE, n)
                          EXCEPT !.want = <<all[n].start, all[n].end>>]

\* ws message 'play' with a position t >= 0.
Play(t) ==
  /\ lastBroadcast' = [t |-> t, paused |-> FALSE, ts |-> now]
  /\ lastBroadcast' # lastBroadcast
  /\ lastResp' = NoResp
  /\ UNCHANGED <<ENABLED_, CONFIG, env, configDriftDetected, samples, now, mediaFile, mediaRev,
                 disk, diskEvents, headCache, fairClient, fairOrder, fairRunning,
                 immediates, fairnessStats, jobs, nreq>>

\* ws message 'pause' with a position t >= 0.
Pause(t) ==
  /\ lastBroadcast' = [t |-> t, paused |-> TRUE, ts |-> now]
  /\ lastBroadcast' # lastBroadcast
  /\ lastResp' = NoResp
  /\ UNCHANGED <<ENABLED_, CONFIG, env, configDriftDetected, samples, now, mediaFile, mediaRev,
                 disk, diskEvents, headCache, fairClient, fairOrder, fairRunning,
                 immediates, fairnessStats, jobs, nreq>>

NextAhead ==
  \/ FairProcessLoop
  \/ Tick
  \/ \E t \in PlayTimes : Play(t)
  \/ \E t \in PlayTimes : Pause(t)

\* Queued requests behind the ahead gate while time passes and the admin
\* plays and pauses.
SpecAhead == InitAhead /\ [][NextAhead]_vars

\* ---------------------------------------------------------------- progress
\* The state after the server has started with fair delivery on, no rate
\* cap, no bitrate, no ahead window and no head cache, and the admin has
\* selected f1; nothing has been requested yet.
InitProgress ==
  /\ ENABLED_ = TRUE
  /\ CONFIG = [FAIR_MAX_REQUEST_BYTES |-> 2 * ChunkBytes, FAIR_CHUNK_BYTES |-> ChunkBytes,
               FAIR_RATE_CAP_BPS |-> 0, CONTENT_BITRATE_BPS |-> 0,
               HOT_CACHE_BYTES |-> 0, FAIR_MAX_AHEAD_SEC |-> 0]
  /\ env = EnvFor(ENABLED_, CONFIG)
  /\ now = 0
  /\ configDriftDetected = FALSE
  /\ lastBroadcast = HomeState(0)
  /\ samples = NoSamples
  /\ mediaFile = "f1"
  /\ mediaRev = 1
  /\ disk = [f \in Files |-> [present |-> TRUE, readable |-> TRUE, size |-> FileLen]]
  /\ diskEvents = 0
  /\ headCache = NoCache
  /\ fairClient = <<>>
  /\ fairOrder = <<>>
  /\ fairRunning = FALSE
  /\ immediates = 0
  /\ fairnessStats = ZeroStats
  /\ jobs = <<>>
  /\ nreq = 0
  /\ lastResp = NoResp

NextProgress ==
  \/ \E g \in Guids, h \in {x \in RangeHeaders : x.kind = "range"} : ServeRange(g, "GET", h)
  \/ FairProcessLoop
  \/ \E j \in 1..MaxRequests : SinkClose(j)
  \/ \E j \in 1..MaxRequests : SinkError(j)
  \/ \E j \in 1..MaxRequests : SinkDrain(j)

\* Range requests, passes and sink events on a file that stays readable;
\* a callback handed to setImmediate is run by the event loop.
SpecProgress ==
  InitProgress /\ [][NextProgress]_vars /\ WF_vars(FairProcessLoop)

\* ------------------------------------------------------- a rewritten file
\* The file, cut short on disk, is written out to its full length again
\* with the same content.
DiskRestore(f) ==
  /\ disk[f].present /\ disk[f].size < FileLen
  /\ disk' = [disk EXCEPT ![f].size = FileLen]
  /\ lastResp' = NoResp
  /\ UNCHANGED <<ENABLED_, CONFIG, env, configDriftDetected, lastBroadcast, samples, now,
                 mediaFile, mediaRev, diskEvents, headCache, fairClient,
                 fairOrder, fairRunning, immediates, fairnessStats, jobs,
                 nreq>>

NextRewrite ==
  \/ \E g \in Guids, h \in {x \in RangeHeaders : x.kind = "range"} : ServeRange(g, "GET", h)
  \/ FairProcessLoop
  \/ DiskTruncate("f1")
  \/ DiskRestore("f1")

\* Range requests and passes while the selected file is being rewritten in
\* place: reads near its momentary end return fewer bytes than asked for.
SpecRewrite == InitProgress /\ [][NextRewrite]_vars

\* ---------------------------------------------------------- cached windows
\* Range headers for every window of the file: bytes=a-b with a <= b.
WindowHeaders ==
  {[kind |-> "range", m1 |-> <<a>>, m2 |-> <<b>>] :
     a \in 0..(FileLen - 1), b \in 0..(FileLen - 1)}

\* The state after the admin has selected a file, the head cache configured
\* to hold two chunks.
InitCache ==
  /\ ENABLED_ = TRUE
  /\ CONFIG = [FAIR_MAX_REQUEST_BYTES |-> 2 * ChunkBytes, FAIR_CHUNK_BYTES |-> ChunkBytes,
               FAIR_RATE_CAP_BPS |-> 0, CONTENT_BITRATE_BPS |-> 0,
               HOT_CACHE_BYTES |-> 2 * ChunkBytes, FAIR_MAX_AHEAD_SEC |-> 0]
  /\ env = EnvFor(ENABLED_, CONFIG)
  /\ now = 0
  /\ configDriftDetected = FALSE
  /\ lastBroadcast = HomeState(0)
  /\ samples = NoSamples
  /\ mediaFile \in Files
  /\ mediaRev = 1
  /\ disk = [f \in Files |-> [present |-> TRUE, readable |-> TRUE, size |-> FileLen]]
  /\ diskEvents = 0
  /\ headCache = NoCache
  /\ fairClient = <<>>
  /\ fairOrder = <<>>
  /\ fairRunning = FALSE
  /\ immediates = 0
  /\ fairnessStats = ZeroStats
  /\ jobs = <<>>
  /\ nreq = 0
  /\ lastResp = NoResp

NextCache ==
  \/ \E g \in Guids, h \in WindowHeaders : ServeRange(g, "GET", h)
  \/ FairProcessLoop

\* Requests for arbitrary windows of an unchanging file, and the passes that
\* deliver them.
SpecCache == InitCache /\ [][NextCache]_vars

\* -------------------------------------------------------- configuration
\* let CONFIG = {}: every field reads as undefined, which is falsy.
NoConfig == [n \in ConfigNames |-> 0]

\* The environments the server may be started in.
EnvSet ==
  {[n \in ConfigNames \cup {"FAIR_DELIVERY"} |->
      IF n = "FAIR_DELIVERY" THEN d
      ELSE IF n = "FAIR_CHUNK_BYTES" THEN c
      ELSE IF n = "FAIR_MAX_REQUEST_BYTES" THEN m
      ELSE IF n = "HOT_CACHE_BYTES" THEN hot
      ELSE Absent] :
     d \in {Absent, [kind |-> "number", h |-> 0]},
     c \in RawValues, m \in RawValues,
     hot \in {Absent, [kind |-> "number", h |-> 2 * Denominator]}}

\* The state after the module has been loaded, before initFairDelivery.
InitConfig ==
  /\ ENABLED_ = TRUE
  /\ CONFIG = NoConfig
  /\ env \in EnvSet
  /\ now = 0
  /\ configDriftDetected = FALSE
  /\ lastBroadcast = HomeState(0)
  /\ samples = NoSamples
  /\ mediaFile = NoFile
  /\ mediaRev = 0
  /\ disk = [f \in Files |-> [present |-> TRUE, readable |-> TRUE, size |-> FileLen]]
  /\ diskEvents = 0
  /\ headCache = NoCache
  /\ fairClient = <<>>
  /\ fairOrder = <<>>
  /\ fairRunning = FALSE
  /\ immediates = 0
  /\ fairnessStats = ZeroStats
  /\ jobs = <<>>
  /\ nreq = 0
  /\ lastResp = NoResp

\* initFairDelivery(): ENABLED and CONFIG from the environment.
InitFairDelivery ==
  /\ ENABLED_' = ~(env["FAIR_DELIVERY"].kind = "number" /\ env["FAIR_DELIVERY"].h = 0)
  /\ CONFIG' = [n \in ConfigNames |-> parsePositiveInt(env[n], DEFAULTS[n])]
  /\ UNCHANGED <<env, configDriftDetected, lastBroadcast, samples, now, mediaFile, mediaRev, disk, diskEvents, headCache,
                 fairClient, fairOrder, fairRunning, immediates, fairnessStats,
                 jobs, nreq, lastResp>>

NextConfig == InitFairDelivery

\* The server starts in some environment and resolves its configuration.
SpecConfig == InitConfig /\ [][NextConfig]_vars

\* ------------------------------------------------------- cache build faults
\* A file that could not be opened for reading can be opened again.
DiskRecover(f) ==
  /\ diskEvents < MaxDiskEvents
  /\ disk[f].present /\ ~disk[f].readable
  /\ disk' = [disk EXCEPT ![f].readable = TRUE]
  /\ diskEvents' = diskEvents + 1
  /\ lastResp' = NoResp
  /\ UNCHANGED <<ENABLED_, CONFIG, env, configDriftDetected, lastBroadcast, samples, now, mediaFile, mediaRev, headCache, fairClient,
                 fairOrder, fairRunning, immediates, fairnessStats, jobs,
                 nreq>>

\* The state after the admin has selected f1, the head cache configured;
\* either file may be one that cannot be opened for reading.
InitBuild ==
  /\ ENABLED_ = TRUE
  /\ CONFIG = [FAIR_MAX_REQUEST_BYTES |-> 2 * ChunkBytes, FAIR_CHUNK_BYTES |-> ChunkBytes,
               FAIR_RATE_CAP_BPS |-> 0, CONTENT_BITRATE_BPS |-> 0,
               HOT_CACHE_BYTES |-> ChunkBytes, FAIR_MAX_AHEAD_SEC |-> 0]
  /\ env = EnvFor(ENABLED_, CONFIG)
  /\ now = 0
  /\ configDriftDetected = FALSE
  /\ lastBroadcast = HomeState(0)
  /\ samples = NoSamples
  /\ mediaFile = "f1"
  /\ mediaRev = 1
  /\ disk \in [Files -> {[present |-> TRUE, readable |-> r, size |-> FileLen] :
                            r \in BOOLEAN}]
  /\ diskEvents = 0
  /\ headCache = NoCache
  /\ fairClient = <<>>
  /\ fairOrder = <<>>
  /\ fairRunning = FALSE
  /\ immediates = 0
  /\ fairnessStats = ZeroStats
  /\ jobs = <<>>
  /\ nreq = 0
  /\ lastResp = NoResp

NextBuild ==
  \/ \E g \in Guids, h \in {x \in RangeHeaders : x.kind = "range"} : ServeRange(g, "GET", h)
  \/ FairProcessLoop
  \/ \E f \in Files : DiskRecover(f)
  \/ \E f \in Files : Load(f)

\* Range requests, passes and a revision change while a file cannot be
\* opened, or can be opened again.
SpecBuild == InitBuild /\ [][NextBuild]_vars

\* ------------------------------------------------------ configuration drift
\* parseInt(raw||'') of an environment value: NaN is <<>>.
ParseInt(raw) ==
  IF raw.kind # "number" THEN <<>>
  ELSE IF raw.h >= 0 THEN <<raw.h \div Denominator>>
  ELSE <<0 - ((0 - raw.h) \div Denominator)>>

\* parseInt(process.env[n]||'') || CONFIG[n]
CurValue(n) ==
  IF ParseInt(env[n]) = <<>> \/ ParseInt(env[n]) = <<0>> THEN CONFIG[n]
  ELSE ParseInt(env[n])[1]

\* Object.keys(_envSnapshot) after ENABLED, in the order of the CONFIG literal.
SnapshotKeys ==
  <<"FAIR_MAX_REQUEST_BYTES", "FAIR_CHUNK_BYTES", "FAIR_RATE_CAP_BPS",
    "CONTENT_BITRATE_BPS", "HOT_CACHE_BYTES", "FAIR_MAX_AHEAD_SEC">>

EnabledNow == ~(env["FAIR_DELIVERY"].kind = "number" /\ env["FAIR_DELIVERY"].h = 0)

\* The first key of the snapshot whose current value differs: 0 for ENABLED,
\* the position in SnapshotKeys for a parameter, -1 when nothing differs.
FirstDrift ==
  IF EnabledNow # ENABLED_ THEN 0
  ELSE IF \E i \in 1..Len(SnapshotKeys) : CurValue(SnapshotKeys[i]) # CONFIG[SnapshotKeys[i]]
  THEN CHOOSE i \in 1..Len(SnapshotKeys) :
         /\ CurValue(SnapshotKeys[i]) # CONFIG[SnapshotKeys[i]]
         /\ \A k \in 1..(i - 1) : CurValue(SnapshotKeys[k]) = CONFIG[SnapshotKeys[k]]
  ELSE -1

\* The drift detection callback of setInterval.
ConfigCheck ==
  /\ IF configDriftDetected \/ FirstDrift = -1
     THEN UNCHANGED <<configDriftDetected, headCache>>
     ELSE /\ configDriftDetected' = TRUE
          /\ headCache' =
               IF /\ FirstDrift > 0
                  /\ SnapshotKeys[FirstDrift] = "HOT_CACHE_BYTES"
                  /\ CurValue("HOT_CACHE_BYTES") < CONFIG.HOT_CACHE_BYTES
               THEN invalidateHeadCache ELSE headCache
  /\ lastResp' = NoResp
  /\ UNCHANGED <<ENABLED_, CONFIG, env, lastBroadcast, samples, now, mediaFile, mediaRev, disk, diskEvents,
                 fairClient, fairOrder, fairRunning, immediates, fairnessStats,
                 jobs, nreq>>

\* The environments the process may come to have while it runs.
DriftEnvs ==
  {[EnvFor(ENABLED_, CONFIG) EXCEPT !["HOT_CACHE_BYTES"] = hot,
                                    !["FAIR_CHUNK_BYTES"] = c] :
     hot \in {Absent, [kind |-> "number", h |-> Denominator],
              [kind |-> "number", h |-> CONFIG.HOT_CACHE_BYTES * Denominator]},
     c \in {Absent, [kind |-> "number", h |-> Denominator]}}

\* process.env is modified while the server runs.
EnvChange ==
  /\ \E e \in DriftEnvs : e # env /\ env' = e
  /\ lastResp' = NoResp
  /\ UNCHANGED <<ENABLED_, CONFIG, configDriftDetected, lastBroadcast, samples, now, mediaFile, mediaRev,
                 disk, diskEvents, headCache, fairClient, fairOrder, fairRunning,
                 immediates, fairnessStats, jobs, nreq>>

NextDrift ==
  \/ \E g \in Guids, h \in {x \in RangeHeaders : x.kind = "range"} : ServeRange(g, "GET", h)
  \/ FairProcessLoop
  \/ EnvChange
  \/ ConfigCheck

\* Requests and passes while the environment changes and the periodic
\* check runs; the start is the state after a file has been selected with
\* the head cache configured.
SpecDrift == InitCache /\ [][NextDrift]_vars

\* ============================================================== properties

\* C1. While fairness is enabled, a range request answered 206 is answered
\* with a span of at most FAIR_MAX_REQUEST_BYTES bytes: a longer requested
\* span keeps its start and has its end reduced to start + max - 1, and the
\* Content-Range, the Content-Length and the enqueued job all describe that
\* span.
TruncationBound ==
  (ENABLED_ /\ lastResp.status = 206) =>
    LET start == lastResp.want[1]
        end == lastResp.want[2]
        max == CONFIG.FAIR_MAX_REQUEST_BYTES
        sent == IF end - start + 1 > max THEN start + max - 1 ELSE end
        total == disk[mediaFile].size
    IN /\ lastResp.range = <<"bytes", start, sent, total>>
       /\ lastResp.length = sent - start + 1
       /\ lastResp.length <= max
       /\ lastResp.job # 0 =>
            LET job == jobs[lastResp.job]
            IN /\ job.start = start /\ job.end = sent /\ job.current = start
               /\ job.len = sent - start + 1
               /\ job.range = lastResp.range /\ job.length = lastResp.length

\* A request for more than the maximum has been answered 206 and enqueued.
TruncationWitness ==
  /\ ENABLED_ /\ lastResp.status = 206 /\ lastResp.job # 0
  /\ lastResp.want[2] - lastResp.want[1] + 1 > CONFIG.FAIR_MAX_REQUEST_BYTES

\* C2. Within one client's queue jobs are served first in, first out: in
\* no step does a job receive bytes while a job the same client enqueued
\* earlier is still in the queue.
FifoWithinClient ==
  [][\A j \in 1..Len(jobs) :
       Len(jobs'[j].out) > Len(jobs[j].out) =>
         \A k \in 1..(j - 1) :
           jobs[k].guid = jobs[j].guid => ~InQueue(fairClient', k)]_vars

\* A client has two jobs queued; the first has received bytes, the second
\* none.
FifoWitness ==
  \E c \in DOMAIN fairClient :
    LET q == fairClient[c].queue
    IN /\ Len(q) >= 2
       /\ q[1] < q[2]
       /\ Len(jobs[q[1]].out) > 0
       /\ jobs[q[2]].out = <<>>

\* C3. For every job start <= current <= end + 1; current never decreases
\* and start, end and the target file never change; the completion counter
\* counts exactly the jobs that leave their queue with current = end + 1,
\* and their sinks are ended.
JobBounds ==
  \A j \in 1..Len(jobs) :
    jobs[j].start <= jobs[j].current /\ jobs[j].current <= jobs[j].end + 1

JobStable ==
  \A j \in 1..Len(jobs) :
    jobs'[j] # Gone =>
      /\ jobs'[j].current >= jobs[j].current
      /\ jobs'[j].start = jobs[j].start
      /\ jobs'[j].end = jobs[j].end
      /\ jobs'[j].mediaFile = jobs[j].mediaFile

CompletedOnlyAtEnd ==
  fairnessStats'.completed > fairnessStats.completed =>
    LET done == {j \in QueuedJobs :
                   ~InQueue(fairClient', j) /\ jobs[j].current = jobs[j].end + 1}
    IN /\ fairnessStats'.completed - fairnessStats.completed = Cardinality(done)
       /\ \A j \in done : jobs'[j].writableEnded

JobInvariant ==
  /\ []JobBounds
  /\ [][JobStable]_vars
  /\ [][CompletedOnlyAtEnd]_vars

\* A job has been delivered in full and finalized as completed.
JobCompletedWitness ==
  \E j \in 1..Len(jobs) :
    /\ jobs[j].guid \in Guids /\ ~InQueue(fairClient, j)
    /\ jobs[j].current = jobs[j].end + 1
    /\ jobs[j].writableEnded /\ ~jobs[j].aborted
    /\ Len(jobs[j].out) = jobs[j].len
    /\ fairnessStats.completed >= 1

\* C4. Backpressure is respected: once a write to a job's sink has returned
\* false, no pass writes further bytes of that job before the sink has
\* emitted 'drain'.
BackpressureRespected ==
  [][\A j \in 1..Len(jobs) :
       jobs[j].needDrain => Len(jobs'[j].out) <= Len(jobs[j].out)]_vars

\* C5. At most one invocation of the scheduling loop is scheduled at any
\* time, and the flag says whether one is: a pass requested while one is
\* scheduled schedules nothing more.
SinglePass ==
  /\ immediates <= 1
  /\ fairRunning <=> immediates = 1

\* Two jobs were enqueued with no pass in between: the second request asked
\* for a pass while one was scheduled.
SinglePassWitness ==
  /\ immediates = 1
  /\ Cardinality(QueuedJobs) >= 2
  /\ \A j \in QueuedJobs : jobs[j].out = <<>>

\* C6. When the sink of a queued, incomplete job closes, the job leaves its
\* queue wherever it stands, the other jobs keep their places, no deficit
\* or token changes, completed is unchanged and aborted is incremented; no
\* queue ever holds an incomplete job whose sink has closed, and no step
\* writes to a closed sink.
CloseStep ==
  \A j \in 1..Len(jobs) :
    (~jobs[j].closed /\ jobs'[j].closed /\ InQueue(fairClient, j)
       /\ jobs[j].current <= jobs[j].end) =>
      /\ ~InQueue(fairClient', j)
      /\ \A c \in DOMAIN fairClient :
           /\ fairClient'[c].queue = SelectSeq(fairClient[c].queue, LAMBDA x : x # j)
           /\ fairClient'[c].deficit = fairClient[c].deficit
           /\ fairClient'[c].tokens = fairClient[c].tokens
      /\ fairnessStats'.completed = fairnessStats.completed
      /\ fairnessStats'.aborted = fairnessStats.aborted + 1

NoClosedIncompleteQueued ==
  \A j \in QueuedJobs : jobs[j].closed => jobs[j].current = jobs[j].end + 1

NoWriteAfterClose ==
  \A j \in 1..Len(jobs) : jobs[j].closed => Len(jobs'[j].out) <= Len(jobs[j].out)

SinkCloseAborts ==
  /\ [][CloseStep]_vars
  /\ []NoClosedIncompleteQueued
  /\ [][NoWriteAfterClose]_vars

\* The second job of a client is gone from the queue, its sink closed,
\* while the first is still queued and has received nothing: the one abort
\* counted took a job from behind the head.
CloseBehindHeadWitness ==
  /\ Len(jobs) = 2 /\ jobs[2] = Gone
  /\ jobs[1].guid \in Guids /\ Len(fairOrder) = 1
  /\ fairClient[jobs[1].guid].queue = <<1>>
  /\ jobs[1].out = <<>> /\ ~jobs[1].errored
  /\ fairnessStats.aborted = 1 /\ fairnessStats.completed = 0

\* C7. A revision change (load or unload) aborts every job queued for the
\* old revision: the job leaves its queue and its sink is ended.
RevisionAbortsJobs ==
  [][mediaRev' # mediaRev =>
       \A j \in QueuedJobs : ~InQueue(fairClient', j) /\ jobs'[j].writableEnded]_vars

\* C8. After a revision change every client's queue is empty and every
\* client's deficit and tokens are zero.
RevisionClearsClients ==
  [][mediaRev' # mediaRev =>
       \A c \in DOMAIN fairClient' :
         /\ fairClient'[c].queue = <<>>
         /\ fairClient'[c].deficit = 0
         /\ fairClient'[c].tokens = 0]_vars

\* C9. A revision change discards the head cache and the next request
\* that could use it rebuilds it from the selected file; a cache that is
\* built holds the first bytes of the selected file and of no other, so a
\* response served from it carries the bytes of the selected file at the
\* requested offsets.
CacheHit ==
  /\ ENABLED_ /\ lastResp.status = 206 /\ lastResp.ended
  /\ lastResp.body # <<>>

CacheHoldsSelectedFile ==
  /\ headCache.built =>
       /\ mediaFile # NoFile
       /\ Len(headCache.buf) = CONFIG.HOT_CACHE_BYTES
       /\ headCache.buf = FileBytes(mediaFile, 0, Len(headCache.buf))
  /\ CacheHit =>
       lastResp.body = FileBytes(mediaFile, lastResp.range[2], lastResp.length)

\* A request with a valid range on the fair path, the cache configured.
CacheRebuilt ==
  (nreq' = nreq + 1 /\ ENABLED_ /\ CONFIG.HOT_CACHE_BYTES # 0
     /\ lastResp'.want # <<>>) =>
    /\ headCache'.built
    /\ headCache'.buf = FileBytes(mediaFile, 0, Min(CONFIG.HOT_CACHE_BYTES, FileLen))

HeadCacheOfSelectedFile ==
  /\ []CacheHoldsSelectedFile
  /\ [][mediaRev' # mediaRev => headCache' = NoCache]_vars
  /\ [][CacheRebuilt]_vars

\* After a second revision change a request has rebuilt the cache from the
\* newly selected file.
CacheRebuiltWitness ==
  /\ mediaRev >= 2 /\ headCache.built /\ nreq >= 2
  /\ headCache.buf = FileBytes(mediaFile, 0, CONFIG.HOT_CACHE_BYTES)
  /\ lastResp.status = 206

\* C10. With every client backlogged and the rate cap and the ahead gate
\* off, once a window's worth of bytes has been served each client has
\* received its 1/N share of them within 15 percent, whatever the arrival
\* order and however each backlog is divided into jobs.
RECURSIVE ServedUpTo(_, _)
ServedUpTo(c, n) ==
  IF n = 0 THEN 0
  ELSE ServedUpTo(c, n - 1)
         + (IF jobs[n].guid = c THEN jobs[n].current - jobs[n].start ELSE 0)

ServedTo(c) == ServedUpTo(c, Len(jobs))

RECURSIVE SumServed(_)
SumServed(cs) ==
  IF cs = {} THEN 0
  ELSE LET c == CHOOSE x \in cs : TRUE IN ServedTo(c) + SumServed(cs \ {c})

Backlogged(c) ==
  /\ c \in DOMAIN fairClient
  /\ \E p \in 1..Len(fairClient[c].queue) :
       LET j == fairClient[c].queue[p] IN jobs[j].current <= jobs[j].end

Abs(x) == IF x < 0 THEN -x ELSE x

WindowBytes == FileLen

MaxMinFairness ==
  ((\A c \in Guids : Backlogged(c)) /\ SumServed(Guids) >= WindowBytes) =>
    \A c \in Guids :
      100 * Abs(Cardinality(Guids) * ServedTo(c) - SumServed(Guids))
        <= 15 * SumServed(Guids)

\* C11. Two clients, each with a backlog of truncated jobs of two quanta
\* queued before the first pass: every pass that starts with both clients
\* backlogged delivers exactly one quantum to each, so after k passes
\* (k = 1..4) each has received k quanta, and the two byte counts never
\* differ by more than a quantum.
RECURSIVE ReceivedUpTo(_, _, _)
ReceivedUpTo(js, c, n) ==
  IF n = 0 THEN 0
  ELSE ReceivedUpTo(js, c, n - 1) + (IF js[n].guid = c THEN Len(js[n].out) ELSE 0)

ReceivedBy(js, c) == ReceivedUpTo(js, c, Len(js))

QuantumPerPass ==
  (\A c \in Guids : Backlogged(c)) =>
    \A c \in Guids :
      ReceivedBy(jobs', c) = ReceivedBy(jobs, c) + CONFIG.FAIR_CHUNK_BYTES

\* Each pass serves each client once: chunkServes is twice the number of
\* passes that have served.
AlternatingQuanta ==
  /\ \A c \in Guids :
       /\ 2 * ReceivedBy(jobs, c) = CONFIG.FAIR_CHUNK_BYTES * fairnessStats.chunkServes
       /\ ReceivedBy(jobs, c) <= 4 * CONFIG.FAIR_CHUNK_BYTES
  /\ \A c, d \in Guids :
       Abs(ReceivedBy(jobs, c) - ReceivedBy(jobs, d)) <= CONFIG.FAIR_CHUNK_BYTES

TwoClientAlternation ==
  /\ []AlternatingQuanta
  /\ [][QuantumPerPass]_vars

\* Four passes have served: each client has received four quanta.
TwoClientWitness ==
  /\ fairnessStats.chunkServes = 8
  /\ \A c \in Guids : ReceivedBy(jobs, c) = 4 * CONFIG.FAIR_CHUNK_BYTES
  /\ fairnessStats.truncations = 4

\* C12. No double-charging: in every step, what is subtracted from a
\* client's deficit is the number of bytes read for it and at most the
\* number of bytes written to its sinks, and what is subtracted from its
\* token bucket (when a rate applies) is at most the bytes written.
RECURSIVE ReadUpTo(_, _, _)
ReadUpTo(js, c, n) ==
  IF n = 0 THEN 0
  ELSE ReadUpTo(js, c, n - 1) + (IF js[n].guid = c THEN js[n].current - js[n].start ELSE 0)

ReadFor(js, c) == ReadUpTo(js, c, Len(js))

\* A step of the scheduling loop: the only step that leaves the clock and
\* the disk as they are.
PassStep == immediates > 0 /\ now' = now /\ disk' = disk /\ vars' # vars

NoDoubleCharge ==
  \A c \in DOMAIN fairClient :
    LET fc == fairClient[c]
        written == ReceivedBy(jobs', c) - ReceivedBy(jobs, c)
        bytesRead == ReadFor(jobs', c) - ReadFor(jobs, c)
        topped == IF PassStep /\ Len(fc.queue) > 0
                  THEN TopUp(fc.deficit, CONFIG.FAIR_CHUNK_BYTES) ELSE fc.deficit
        refilled == IF fairClient'[c].lastRefill # fc.lastRefill
                    THEN Refill(fc).tokens ELSE fc.tokens
        deficitCharge == topped - fairClient'[c].deficit
        tokenCharge == refilled - fairClient'[c].tokens
    IN /\ deficitCharge >= 0 /\ tokenCharge >= 0
       /\ deficitCharge = bytesRead
       /\ deficitCharge <= written
       /\ tokenCharge <= written * TokenScale

ChargeOnDelivery == [][NoDoubleCharge]_vars

\* A short read under a rate limit: fewer bytes were read and charged than
\* were written, and the bucket has been drawn on.
ShortReadChargedWitness ==
  \E c \in DOMAIN fairClient :
    /\ RateOn /\ fairClient[c].lastRefill > 0
    /\ 0 < ReadFor(jobs, c) /\ ReadFor(jobs, c) < ReceivedBy(jobs, c)

\* C13. A range admitted on the fair path is answered from the head cache
\* exactly when the cache is built and the end of the (truncated) span lies
\* within the bytes the cache holds: then the body is the cached bytes at
\* start..end, cacheHits grows by one and no job is enqueued; otherwise
\* cacheHits is unchanged and the request takes the scheduled path.
AdmittedStep ==
  /\ nreq' = nreq + 1 /\ ENABLED_ /\ lastResp'.want # <<>>
  /\ lastResp'.status = 206

AnsweredFromCache ==
  AdmittedStep =>
    LET start == lastResp'.range[2]
        end == lastResp'.range[3]
        inCache == headCache'.built /\ end < Len(headCache'.buf)
    IN IF inCache
       THEN /\ fairnessStats'.cacheHits = fairnessStats.cacheHits + 1
            /\ jobs' = jobs /\ lastResp'.job = 0 /\ lastResp'.ended
            /\ lastResp'.body \in {<<>>, SubSeq(headCache'.buf, start + 1, end + 1)}
       ELSE /\ fairnessStats'.cacheHits = fairnessStats.cacheHits
            /\ lastResp'.body = <<>>

HeadCacheAnswers == [][AnsweredFromCache]_vars

\* C14. While the file does not change, for every window inside the
\* head-cache region the bytes of the cache at the window's offsets (the
\* slice a cache hit sends) are, byte for byte and in the same order, the
\* bytes the scheduler delivers for that window by positional reads.
InCacheRegion(job) ==
  /\ headCache.built /\ job.mediaFile = mediaFile
  /\ job.end < Len(headCache.buf)

CacheSlice(start, end) == SubSeq(headCache.buf, start + 1, end + 1)

OutOfBounds(h) ==
  /\ Exists(mediaFile) /\ h.kind = "range"
  /\ LET total == disk[mediaFile].size
     IN ParseStart(h) > ParseEnd(h, total) \/ ParseEnd(h, total) >= total

RejectedUnchanged ==
  \A h \in {x \in RangeHeaders : OutOfBounds(x)} :
    (nreq' = nreq + 1 /\ \E g \in Guids \cup {NoGuid}, m \in Methods : ServeRange(g, m, h)) =>
      /\ lastResp'.status = 416 /\ lastResp'.ended /\ lastResp'.job = 0
      /\ UNCHANGED <<jobs, fairClient, fairOrder, fairnessStats, headCache,
                     fairRunning, immediates>>

InvalidRangeRejected == [][RejectedUnchanged]_vars

\* An out-of-bounds range has been rejected while a job was queued.
InvalidRangeWitness ==
  /\ lastResp.status = 416 /\ lastResp.range # <<>>
  /\ QueuedJobs # {} /\ fairnessStats.enqueued > 0

\* C16. A valid range GET without a client id, fairness enabled and not
\* answered from the head cache, is handled without error: it is answered
\* 206 and its job is enqueued on a queue that holds no other job.
NoGuidRequest ==
  /\ nreq' = nreq + 1 /\ ENABLED_ /\ lastResp'.want # <<>>
  /\ \E h \in RangeHeaders : ServeRange(NoGuid, "GET", h)
  /\ fairnessStats'.cacheHits = fairnessStats.cacheHits

NoGuidEnqueued ==
  NoGuidRequest =>
    /\ lastResp'.status = 206
    /\ lastResp'.job = Len(jobs) + 1 /\ Len(jobs') = Len(jobs) + 1
    /\ \E k \in DOMAIN fairClient' : fairClient'[k].queue = <<lastResp'.job>>

NoGuidPrivateQueue == [][NoGuidEnqueued]_vars

\* C17. In a pass, a job whose file cannot be opened or whose read returns
\* no bytes is removed from its queue, its sink is ended and it is counted
\* as aborted, and nothing else is: in the same pass the first job behind
\* it that can be read is served, the jobs of the other queues are served,
\* every job further back is left as it was, and the loop is rescheduled.
Live(j) == ~jobs[j].writableEnded /\ jobs[j].current <= jobs[j].end

ReadFails(j) ==
  \/ jobs[j].mediaFile = NoFile
  \/ ~disk[jobs[j].mediaFile].present
  \/ ~disk[jobs[j].mediaFile].readable
  \/ disk[jobs[j].mediaFile].size <= jobs[j].current

\* The position in queue q of the job the pass serves: the first live job
\* whose read succeeds.
ServedPos(q) ==
  IF \E i \in 1..Len(q) : Live(q[i]) /\ ~ReadFails(q[i])
  THEN CHOOSE i \in 1..Len(q) :
         /\ Live(q[i]) /\ ~ReadFails(q[i])
         /\ \A k \in 1..(i - 1) : ~(Live(q[k]) /\ ~ReadFails(q[k]))
  ELSE Len(q) + 1

FailedReads ==
  {j \in QueuedJobs :
     \E c \in DOMAIN fairClient : \E i \in 1..Len(fairClient[c].queue) :
       /\ fairClient[c].queue[i] = j /\ Live(j)
       /\ i < ServedPos(fairClient[c].queue)}

FailedReadIsolated ==
  (ENABLED_ /\ FairProcessLoop) =>
    /\ \A j \in FailedReads : jobs'[j].writableEnded /\ ~InQueue(fairClient', j)
    /\ fairnessStats'.aborted = fairnessStats.aborted + Cardinality(FailedReads)
    /\ \A c \in DOMAIN fairClient :
         LET q == fairClient[c].queue
             p == ServedPos(q)
         IN /\ p <= Len(q) =>
                 /\ jobs'[q[p]].current > jobs[q[p]].current
                 /\ ~jobs'[q[p]].writableEnded
                 /\ fairClient'[c].queue = SubSeq(q, p, Len(q))
            /\ \A i \in (p + 1)..Len(q) : jobs'[q[i]] = jobs[q[i]]
    /\ QueuedJobs # {} => fairRunning' /\ immediates' > 0

ReadFailureIsolated == [][FailedReadIsolated]_vars

\* The loop has aborted a job on a failed read and is still scheduled, with
\* a job that has received bytes still in a queue.
ReadFailureWitness ==
  /\ fairRunning /\ immediates > 0 /\ lastResp = NoResp
  /\ \E j \in 1..Len(jobs) :
       /\ jobs[j].writableEnded /\ ~jobs[j].aborted /\ ~jobs[j].closed
       /\ jobs[j].current <= jobs[j].end /\ ~InQueue(fairClient, j)
       /\ disk[jobs[j].mediaFile].present
  /\ \E k \in QueuedJobs : Len(jobs[k].out) > 0 /\ Live(k)

\* C18. With fairness disabled a valid range request is answered directly,
\* without a job, and the span announced and streamed is at most
\* FAIR_MAX_REQUEST_BYTES bytes.
DirectPathTruncated ==
  (~ENABLED_ /\ lastResp.status = 206) =>
    /\ lastResp.job = 0 /\ lastResp.ended
    /\ lastResp.length <= CONFIG.FAIR_MAX_REQUEST_BYTES
    /\ Len(lastResp.body) <= CONFIG.FAIR_MAX_REQUEST_BYTES

\* C20. A response with status 416 carries Content-Range: bytes */length,
\* length being the size of the selected file, whether the Range header was
\* malformed or its bounds were out of range.
RejectionCarriesLength ==
  lastResp.status = 416 =>
    /\ Exists(mediaFile)
    /\ lastResp.range = <<"*", disk[mediaFile].size>>

\* C19. Whatever the raw overrides are, initFairDelivery resolves a
\* configuration: an override that is not numeric or not positive leaves the
\* default in place, and FAIR_CHUNK_BYTES and FAIR_MAX_REQUEST_BYTES come
\* out as integers of at least 1.
RejectedRaw(raw) == raw.kind = "text" \/ (raw.kind = "number" /\ raw.h <= 0)

ResolvedPositive ==
  InitFairDelivery =>
    /\ \A n \in ConfigNames : RejectedRaw(env[n]) => CONFIG'[n] = DEFAULTS[n]
    /\ CONFIG'.FAIR_CHUNK_BYTES \in Nat /\ CONFIG'.FAIR_CHUNK_BYTES >= 1
    /\ CONFIG'.FAIR_MAX_REQUEST_BYTES \in Nat /\ CONFIG'.FAIR_MAX_REQUEST_BYTES >= 1

ResolverPositive == [][ResolvedPositive]_vars

\* C21. Each pass adds exactly one quantum to the deficit of every client
\* it visits with a non-empty queue and a deficit below one quantum, before
\* the head job is examined, and leaves the deficit of a client with an
\* empty queue as it is.
QuantumAdded ==
  (immediates > 0 /\ vars' # vars) =>
    \A c \in DOMAIN fairClient :
      LET fc == fairClient[c]
          quantum == CONFIG.FAIR_CHUNK_BYTES
          charged == ReadFor(jobs', c) - ReadFor(jobs, c)
      IN IF Len(fc.queue) = 0
         THEN fairClient'[c].deficit = fc.deficit
         ELSE IF fc.deficit < quantum
         THEN fairClient'[c].deficit = fc.deficit + quantum - charged
         ELSE fairClient'[c].deficit = fc.deficit - charged

QuantumTopUp == [][QuantumAdded]_vars

\* C22. The deficit of every client is at least 0 and at most one quantum:
\* serving never drives it below zero and visits without service never pile
\* up more than one quantum of credit.
DeficitBounded ==
  \A c \in DOMAIN fairClient :
    /\ fairClient[c].deficit >= 0
    /\ fairClient[c].deficit <= CONFIG.FAIR_CHUNK_BYTES

\* A client that has been served holds a whole quantum of credit after a
\* visit in which the rate limit deferred it, while another has spent its
\* credit.
DeficitBoundedWitness ==
  /\ fairnessStats.rateLimited >= 2
  /\ \E c \in DOMAIN fairClient :
       /\ ReadFor(jobs, c) > 0 /\ Len(fairClient[c].queue) > 0
       /\ fairClient[c].deficit = CONFIG.FAIR_CHUNK_BYTES
  /\ \E c \in DOMAIN fairClient :
       ReadFor(jobs, c) > 0 /\ fairClient[c].deficit = 0

\* C23. With a rate in force the tokens of every client are at least 0 and
\* at most the bucket capacity (one second of the fill rate); a refill adds
\* the fill rate times the time since the last refill, clamped to the
\* capacity, and what is consumed is clamped at zero.
Capacity == FillRate * TokenScale

TokensBounded ==
  RateOn =>
    \A c \in DOMAIN fairClient :
      fairClient[c].tokens >= 0 /\ fairClient[c].tokens <= Capacity

RefillProportional ==
  (RateOn /\ PassStep) =>
    \A c \in DOMAIN fairClient :
      LET fc == fairClient[c]
          elapsed == now - fc.lastRefill
          bytesRead == ReadFor(jobs', c) - ReadFor(jobs, c)
          filled == Min(Capacity, fc.tokens + FillRate * elapsed)
      IN IF fairClient'[c].lastRefill # fc.lastRefill
         THEN /\ fairClient'[c].lastRefill = now
              /\ fairClient'[c].tokens = Max(0, filled - bytesRead * TokenScale)
         ELSE fairClient'[c].tokens = Max(0, fc.tokens - bytesRead * TokenScale)

TokenBucketBounds ==
  /\ []TokensBounded
  /\ [][RefillProportional]_vars

\* A bucket left alone for longer than it takes to fill has been refilled to
\* its capacity, not beyond, and drawn on.
TokenBucketWitness ==
  \E c \in DOMAIN fairClient :
    /\ RateOn /\ fairClient[c].lastRefill * FillRate > Capacity
    /\ fairnessStats.rateLimited = 0 /\ ReadFor(jobs, c) > 0
    /\ fairClient[c].tokens + ReadFor(jobs, c) * TokenScale = Capacity

\* C24. The bytes a visit writes to a client are the least of the bytes
\* left in the head job, the deficit, one quantum and, under a rate, the
\* whole tokens available; a visit for which this is below 1 writes nothing.
\* So a pass writes at most one quantum to a client, also when it finalizes
\* or aborts jobs of the client and revisits its queue.
RECURSIVE VisitBytes(_, _, _)
VisitBytes(q, deficit, tokens) ==
  IF q = <<>> THEN 0
  ELSE LET j == Head(q)
           remaining == jobs[j].end - jobs[j].current + 1
           least == Min(Min(remaining, deficit), CONFIG.FAIR_CHUNK_BYTES)
           amount == IF RateOn THEN Min(least, tokens \div TokenScale) ELSE least
       IN IF ~Live(j) THEN VisitBytes(Tail(q), deficit, tokens)
          ELSE IF amount < 1 THEN 0
          ELSE IF ReadFails(j) THEN VisitBytes(Tail(q), deficit, tokens)
          ELSE amount

VisitServesLeast ==
  PassStep =>
    \A c \in DOMAIN fairClient :
      LET fc == fairClient[c]
          written == ReceivedBy(jobs', c) - ReceivedBy(jobs, c)
          deficit == IF fc.deficit < 1 THEN fc.deficit + CONFIG.FAIR_CHUNK_BYTES
                     ELSE fc.deficit
          tokens == IF RateOn
                    THEN Min(Capacity, fc.tokens + FillRate * (now - fc.lastRefill))
                    ELSE 0
      IN /\ written = VisitBytes(fc.queue, deficit, tokens)
         /\ written <= CONFIG.FAIR_CHUNK_BYTES

BytesPerVisit == [][VisitServesLeast]_vars

\* Under a rate, a client has had a job finalized and a later job of its
\* queue served with fewer bytes than a quantum.
BytesPerVisitWitness ==
  /\ RateOn
  /\ \E j \in 1..Len(jobs), k \in QueuedJobs :
       /\ jobs[j].guid = jobs[k].guid /\ j < k
       /\ jobs[j].writableEnded /\ jobs[j].current > jobs[j].end
       /\ Live(k) /\ Len(jobs[k].out) > 0
       /\ Len(jobs[k].out) < CONFIG.FAIR_CHUNK_BYTES

\* C25. A read that returns fewer bytes than were asked for, for a chunk
\* inside the span the job was admitted for, aborts the job: the job leaves
\* its queue, its sink is ended, and the sink receives no bytes beyond
\* those that were read.
ShortReadIsError ==
  (ENABLED_ /\ FairProcessLoop) =>
    \A c \in DOMAIN fairClient :
      LET q == fairClient[c].queue
          p == ServedPos(q)
      IN p <= Len(q) =>
           LET j == q[p]
               asked == VisitBytes(SubSeq(q, p, Len(q)),
                                   TopUp(fairClient[c].deficit, CONFIG.FAIR_CHUNK_BYTES), 0)
               read == jobs'[j].current - jobs[j].current
               written == Len(jobs'[j].out) - Len(jobs[j].out)
           IN /\ written <= read
              /\ read < asked => jobs'[j].writableEnded /\ ~InQueue(fairClient', j)

ShortReadAborts == [][ShortReadIsError]_vars

\* C26. In a pass, a chunk of the head job that lies entirely within the
\* built head cache is copied from the cache, whatever a read of the file
\* would return: the sink receives the cached bytes at the chunk's offsets
\* and the job advances by the whole chunk.
LivePos(q) ==
  IF \E i \in 1..Len(q) : Live(q[i])
  THEN CHOOSE i \in 1..Len(q) : Live(q[i]) /\ \A k \in 1..(i - 1) : ~Live(q[k])
  ELSE Len(q) + 1

ChunkFromCache ==
  (ENABLED_ /\ FairProcessLoop) =>
    \A c \in DOMAIN fairClient :
      LET q == fairClient[c].queue
          p == LivePos(q)
      IN p <= Len(q) =>
           LET j == q[p]
               deficit == TopUp(fairClient[c].deficit, CONFIG.FAIR_CHUNK_BYTES)
               toSend == Min(jobs[j].end - jobs[j].current + 1,
                             Min(deficit, CONFIG.FAIR_CHUNK_BYTES))
               inCache == /\ headCache.built /\ jobs[j].mediaFile = mediaFile
                          /\ jobs[j].current + toSend - 1 < Len(headCache.buf)
           IN inCache =>
                /\ jobs'[j].current = jobs[j].current + toSend
                /\ jobs'[j].out =
                     jobs[j].out \o SubSeq(headCache.buf, jobs[j].current + 1,
                                           jobs[j].current + toSend)

LoopUsesHeadCache == [][ChunkFromCache]_vars

\* C27. Once the head cache is built further requests of the revision leave
\* it as it is, and once a request of a revision has failed to build it (a
\* request was admitted with the cache configured and the cache is not
\* built) no later request of that revision builds it.
BuildAttempted ==
  /\ ENABLED_ /\ CONFIG.HOT_CACHE_BYTES # 0
  /\ fairnessStats.enqueued > 0

BuildOnce ==
  mediaRev' = mediaRev =>
    /\ headCache.built => headCache' = headCache
    /\ (BuildAttempted /\ ~headCache.built) => ~headCache'.built

HeadCacheBuildOnce == [][BuildOnce]_vars

\* C28. A periodic check that finds the configured head-cache size below
\* the size the server started with invalidates the head cache, whatever
\* else has changed in the environment and whatever was detected before.
CacheShrunk ==
  parsePositiveInt(env["HOT_CACHE_BYTES"], DEFAULTS.HOT_CACHE_BYTES)
    < CONFIG.HOT_CACHE_BYTES

ShrinkInvalidates == (ConfigCheck /\ CacheShrunk) => headCache' = NoCache

CacheShrinkInvalidates == [][ShrinkInvalidates]_vars

\* C29. With FAIR_RATE_CAP_BPS = 0 no token bucket is in use, whether or
\* not a content bitrate is declared: no visit is deferred by the rate
\* limit, no bucket is filled or drawn on, and every pass writes what the
\* deficit and the job allow.
NoCapNoBucket ==
  CONFIG.FAIR_RATE_CAP_BPS = 0 =>
    /\ fairnessStats.rateLimited = 0
    /\ \A c \in DOMAIN fairClient : fairClient[c].tokens = 0

\* C30. Under a rate cap the tokens are bits: serving n bytes takes 8 n
\* tokens, so by any time the bytes the scheduler has written to a client
\* are at most (capacity + rate cap * elapsed time) / 8.
BitsPerByte == 8

\* now is in ticks of 1/TokenScale second and Capacity in tokens times
\* TokenScale, so both sides are multiplied by TokenScale.
RateCapInBits ==
  CONFIG.FAIR_RATE_CAP_BPS # 0 =>
    \A c \in DOMAIN fairClient :
      BitsPerByte * ReceivedBy(jobs, c) * TokenScale
        <= Capacity + CONFIG.FAIR_RATE_CAP_BPS * now

\* C31. Ahead gate: with an ahead window and a bitrate configured, a visit
\* whose head job starts beyond floor(bitrate * (playback position +
\* window)) sends no byte of the job, takes nothing from the client's
\* deficit or tokens and counts one ahead-gate defer; the playback position
\* advances with the clock only while playback is not paused.
PlaybackTicks ==
  IF lastBroadcast.paused THEN lastBroadcast.t
  ELSE lastBroadcast.t + (now - lastBroadcast.ts)

\* The position is in ticks: the product is divided by the ticks per second.
AllowedOffset ==
  (FillRate * (PlaybackTicks + CONFIG.FAIR_MAX_AHEAD_SEC * TokenScale)) \div TokenScale

GatedClients ==
  {c \in DOMAIN fairClient :
     LET q == fairClient[c].queue
     IN /\ LivePos(q) <= Len(q)
        /\ jobs[q[LivePos(q)]].start > AllowedOffset}

PassOnly == PassStep /\ lastBroadcast' = lastBroadcast

GateDefers ==
  (PassOnly /\ CONFIG.FAIR_MAX_AHEAD_SEC # 0 /\ RateOn) =>
    /\ \A c \in GatedClients :
         LET q == fairClient[c].queue
             j == q[LivePos(q)]
         IN /\ jobs'[j] = jobs[j]
            /\ ReceivedBy(jobs', c) = ReceivedBy(jobs, c)
            /\ fairClient'[c].deficit >= fairClient[c].deficit
            /\ fairClient'[c].tokens = fairClient[c].tokens
    /\ fairnessStats'.aheadDeferred
         = fairnessStats.aheadDeferred + Cardinality(GatedClients)

AheadGate == [][GateDefers]_vars

\* Playback runs from position 0, a job beyond the window has been deferred
\* and, the clock having advanced, has later been served.
AheadGateWitness ==
  /\ CONFIG.FAIR_MAX_AHEAD_SEC # 0 /\ RateOn
  /\ fairnessStats.aheadDeferred > 0
  /\ ~lastBroadcast.paused /\ lastBroadcast.t = 0
  /\ \E j \in 1..Len(jobs) :
       /\ jobs[j].start > (FillRate * CONFIG.FAIR_MAX_AHEAD_SEC)
       /\ Len(jobs[j].out) > 0

\* C32. The loop makes passes only while some queue has pending unblocked
\* work: after a pass that leaves every queued head job blocked (its sink
\* has refused a write and not drained, the ahead gate holds it back, or
\* its client has less than one token) no further pass is scheduled until
\* a drain or an enqueue wakes the loop.
Blocked(c, j) ==
  \/ jobs[j].needDrain
  \/ CONFIG.FAIR_MAX_AHEAD_SEC # 0 /\ RateOn /\ jobs[j].start > AllowedOffset
  \/ RateOn /\ fairClient[c].tokens < TokenScale

AllBlocked ==
  /\ QueuedJobs # {}
  /\ \A c \in DOMAIN fairClient :
       LET q == fairClient[c].queue
       IN Len(q) > 0 => Live(q[1]) /\ Blocked(c, q[1])

IdleWhenBlocked == (PassOnly /\ AllBlocked') => immediates' = 0

NoBusyPolling == [][IdleWhenBlocked]_vars

\* C33. A client whose head job makes no progress in a pass (held back by
\* the ahead gate or left with less than one token by the rate cap) costs
\* the others nothing: in the same pass every other client with a queued
\* job that is neither held back nor short of tokens is served at least
\* one byte.
TokensAtVisit(c) ==
  Min(Capacity, fairClient[c].tokens + FillRate * (now - fairClient[c].lastRefill))

HeldBack(c) ==
  LET q == fairClient[c].queue
  IN /\ LivePos(q) <= Len(q)
     /\ \/ c \in GatedClients /\ CONFIG.FAIR_MAX_AHEAD_SEC # 0 /\ RateOn
        \/ RateOn /\ TokensAtVisit(c) < TokenScale

Unblocked(c) ==
  /\ LivePos(fairClient[c].queue) <= Len(fairClient[c].queue)
  /\ ~HeldBack(c)

OthersServed ==
  PassOnly =>
    \A c0 \in DOMAIN fairClient : HeldBack(c0) =>
      \A c \in DOMAIN fairClient \ {c0} :
        Unblocked(c) => ReceivedBy(jobs', c) > ReceivedBy(jobs, c)

OrderOfKnownClients ==
  /\ \A i, k \in 1..Len(fairOrder) : fairOrder[i] = fairOrder[k] => i = k
  /\ {fairOrder[i] : i \in 1..Len(fairOrder)} = DOMAIN fairClient

OrderStable ==
  /\ Len(fairOrder') \in {Len(fairOrder), Len(fairOrder) + 1}
  /\ SubSeq(fairOrder', 1, Len(fairOrder)) = fairOrder
  /\ \A c \in DOMAIN fairClient' \ DOMAIN fairClient :
       /\ fairOrder'[Len(fairOrder')] = c
       /\ fairClient'[c].deficit = 0 /\ fairClient'[c].tokens = 0
       /\ fairClient'[c].queue \in {<<>>, <<Len(jobs) + 1>>}
  /\ nreq' = nreq + 1 =>
       \A c \in DOMAIN fairClient :
         /\ fairClient'[c].deficit = fairClient[c].deficit
         /\ fairClient'[c].tokens = fairClient[c].tokens
         /\ fairClient'[c].queue \in {fairClient[c].queue,
                                      Append(fairClient[c].queue, Len(jobs) + 1)}

FirstSeenOrder == []OrderOfKnownClients /\ [][OrderStable]_vars

\* A known client with deficit left over from a served job has sent a
\* second request, which is queued under the same record.
FirstSeenOrderWitness ==
  /\ nreq = 2 /\ lastResp.job = 2
  /\ Len(fairOrder) = 1
  /\ fairClient[fairOrder[1]].deficit > 0
  /\ fairClient[fairOrder[1]].queue = <<2>>

\* C35. A change of the file revision resets all FairnessStats: after it
\* every counter is 0 and the rolling queue-wait and chunk-service-time
\* samples are empty.
StatsReset ==
  mediaRev' # mediaRev => fairnessStats' = ZeroStats /\ samples' = NoSamples

RevisionResetsStats == [][StatsReset]_vars

\* C36. Progress: with no rate cap and no ahead gate configured and every
\* read succeeding, whenever jobs are queued the loop eventually finalizes
\* every enqueued job (completed, or aborted on its sink's close or
\* error), leaves every queue empty and returns to Idle with the running
\* flag cleared.
AllFinalized == \A j \in 1..Len(jobs) : jobs[j].writableEnded

LoopIdle ==
  /\ QueuedJobs = {}
  /\ ~fairRunning /\ immediates = 0

PassPending ==
  (ENABLED_ /\ QueuedJobs # {}) => (fairRunning /\ immediates > 0)

FlagCleared ==
  (ENABLED_ /\ fairRunning /\ ~fairRunning') =>
    /\ QueuedJobs = {}
    /\ immediates' = immediates - 1
    /\ fairClient' = fairClient /\ fairnessStats' = fairnessStats

NoLostWakeup == []PassPending /\ [][FlagCleared]_vars

\* The first job has been finalized and has left its queue, a second
\* request has been enqueued and not yet served, and one pass is pending.
NoLostWakeupWitness ==
  /\ ENABLED_ /\ nreq = 2 /\ Len(jobs) = 2
  /\ jobs[1].writableEnded /\ ~InQueue(fairClient, 1)
  /\ fairnessStats.completed + fairnessStats.aborted > 0
  /\ InQueue(fairClient, 2) /\ jobs[2].out = <<>>
  /\ fairRunning /\ immediates = 1

\* C38. Every enqueued job is counted exactly once when it leaves its
\* queue, as completed or as aborted, whatever events follow on its sink:
\* within one revision completed + aborted never exceeds enqueued.
CountedOnce ==
  fairnessStats.completed + fairnessStats.aborted <= fairnessStats.enqueued

\* C39. The body of every job finalized as completed is exactly the file
\* bytes at offsets start..end, in order and each once, so its length is
\* the Content-Length announced with the 206 response, whatever the sizes
\* of the chunks it was served in.
FinalizedCompleted(j) ==
  /\ jobs[j] # Gone
  /\ jobs[j].writableEnded /\ jobs[j].current > jobs[j].end

CompletedBodyExact ==
  \A j \in 1..Len(jobs) :
    FinalizedCompleted(j) =>
      /\ Len(jobs[j].out) = jobs[j].length
      /\ jobs[j].length = jobs[j].end - jobs[j].start + 1
      /\ jobs[j].out = FileBytes(jobs[j].mediaFile, jobs[j].start, jobs[j].len)

====
